---- MODULE Spec2Model ----
(***************************************************************************)
(* Verification model of the polymarkets dashboard:                        *)
(*   - the refresh / load_markets snapshot protocol (data_loader.py,       *)
(*     get_markets.py write_csv),                                          *)
(*   - the feature engine (features.py),                                   *)
(*   - the global filter chain (filters.py).                               *)
(* Numbers are exact rationals kept as scaled integers; the scale of every *)
(* quantity is stated where it is introduced.                              *)
(***************************************************************************)
EXTENDS Integers, Sequences, FiniteSets, TLC

(***************************************************************************)
(* Bounds of the model                                                     *)
(***************************************************************************)
\* number of distinct upstream snapshots a behaviour may fetch
MaxVer == 4
\* number of rows of a table drawn as input
MaxRows == 2
\* highest event id the upstream API hands out during one fetch
MaxEvents == 5
\* length of the outcomes_raw texts drawn as input
MaxText == 4

(***************************************************************************)
(* PART 1 - snapshot files, Refresh button and load_markets                *)
(***************************************************************************)
VARIABLES
    csv,            \* content of CSV_PATH: NoFile or a snapshot
    backup,         \* content of CSV_PATH + ".backup"
    cache,          \* st.cache_data entry of load_markets(): NoCache or a table
    force_refresh,  \* st.session_state['force_refresh']
    nextVer,        \* version the upstream API serves on the next fetch
    returned,       \* table returned by the last load_markets call since the last press
    pre,            \* history: snapshot on disk when Refresh was last pressed
    lastOutcome,    \* history: outcome of the fetch run by the last uncached load
    fetchedVer,     \* history: version the last fetch tried to write (0: none)
    fetches,        \* history: fetch attempts since the last Refresh press
    partial         \* history: the last fetch left a truncated file at CSV_PATH

loaderVars == <<csv, backup, cache, force_refresh, nextVer, returned, pre,
                lastOutcome, fetchedVer, fetches, partial>>

(***************************************************************************)
(* State of one run of get_markets.py against the events endpoint          *)
(***************************************************************************)
VARIABLES
    events,         \* upstream: ids of the open events, highest id first
    offset,         \* offset of the next page request
    all_rows,       \* market rows collected so far
    fpc             \* position of the run: "idle", "paging" or "done"

fetchVars == <<events, offset, all_rows, fpc>>

\* get_markets.py is not running
FetchIdle ==
    /\ events = <<>>
    /\ offset = 0
    /\ all_rows = <<>>
    /\ fpc = "idle"

refreshVars == <<loaderVars, fetchVars>>

(***************************************************************************)
(* State of one pass of the pipeline over the in-memory table              *)
(***************************************************************************)
VARIABLES
    df,             \* the DataFrame being processed: a sequence of rows
    cols,           \* names of the columns the DataFrame has
    now,            \* wall clock read by add_features, in whole days
    pc,             \* position of the pass
    ui,             \* values the sidebar widgets returned so far in this pass
    hist            \* history: tables seen earlier in the pass

pipeVars == <<df, cols, now, pc, ui, hist>>

vars == <<csv, backup, cache, force_refresh, nextVer, returned, pre,
          lastOutcome, fetchedVer, fetches, partial, events, offset, all_rows, fpc,
          df, cols, now, pc, ui, hist>>

NoUi == [tradeable |-> FALSE]
NoHist == [input |-> <<>>]

\* the pipeline is not running (used by the specification of the refresh
\* protocol, which treats tables as opaque)
PipeIdle ==
    /\ df = <<>>
    /\ cols = {}
    /\ now = 0
    /\ pc = "idle"
    /\ ui = NoUi
    /\ hist = NoHist

NoFile == [ver |-> 0, complete |-> FALSE]
\* markers kept in the shape of a table so that they compare with tables
NoCache == [ver |-> -1, complete |-> FALSE]
NotCalled == [ver |-> -2, complete |-> FALSE]
\* pd.DataFrame(): the empty table load_markets returns when it has no CSV
EmptyTable == [ver |-> 0, complete |-> FALSE]

\* a snapshot file: the upstream version it holds and whether write_csv
\* finished writing it
Snapshot(v, c) == [ver |-> v, complete |-> c]
Files == {NoFile} \cup {Snapshot(v, c) : v \in 1..(MaxVer + 1), c \in BOOLEAN}

exists(f) == f # NoFile

\* pd.read_csv + normalisation + add_features of the file at CSV_PATH: the
\* table holds the rows of exactly that file
ReadCsv(f) == [ver |-> f.ver, complete |-> f.complete]

Outcomes == {"ok_rows", "ok_zero", "nonzero", "timeout", "exception"}

\* what the fetch subprocess leaves at CSV_PATH.  write_csv opens the file
\* with "w" only when there are rows; a process that dies or is killed while
\* writing leaves a truncated file (wrote = TRUE).
FetchWrites(outcome, wrote, c, v) ==
    CASE outcome = "ok_rows"   -> Snapshot(v, TRUE)
      [] outcome = "ok_zero"   -> c
      [] outcome = "nonzero"   -> IF wrote THEN Snapshot(v, FALSE) ELSE c
      [] outcome = "timeout"   -> IF wrote THEN Snapshot(v, FALSE) ELSE c
      [] OTHER                 -> c

\* except-branches of load_markets: "Restore backup if it exists"
RestoreBackup_Keep(c, b) == [csv |-> c, backup |-> b]
RestoreBackup(c, b) ==
    IF exists(b) THEN [csv |-> b, backup |-> NoFile]
                 ELSE [csv |-> c, backup |-> b]

\* the branch after subprocess.run returned: early return when the return
\* code is non-zero and no CSV exists, else "Clean up backup if it exists"
\* (reached for return code 0 and also for a non-zero code with a CSV).
\* ret = TRUE: load_markets returns pd.DataFrame() at once.
AfterRun(rc0, c, b) ==
    IF ~rc0 /\ ~exists(c)
        THEN [csv |-> c, backup |-> b, ret |-> TRUE]
        ELSE [csv |-> c, backup |-> NoFile, ret |-> FALSE]

\* the try/except block of load_markets around the fetch
FetchBlock(outcome, wrote, c, b, v) ==
    LET w == FetchWrites(outcome, wrote, c, v) IN
    IF outcome \in {"timeout", "exception"}
        THEN LET r == RestoreBackup(w, b) IN
             [csv |-> r.csv, backup |-> r.backup, ret |-> ~exists(r.csv)]
        ELSE AfterRun(TRUE = (outcome \in {"ok_rows", "ok_zero"}), w, b)

\* body of load_markets on a cache miss; fr is the flag read from the
\* session state
LoadBody(fr, outcome, wrote, c, b, v) ==
    LET fetch == fr \/ ~exists(c)
        fb == IF fetch THEN FetchBlock(outcome, wrote, c, b, v)
                       ELSE [csv |-> c, backup |-> b, ret |-> FALSE]
        tab == IF fb.ret \/ ~exists(fb.csv) THEN EmptyTable ELSE ReadCsv(fb.csv)
    IN [csv |-> fb.csv, backup |-> fb.backup, table |-> tab, fetch |-> fetch]

LoaderIdle ==
    /\ csv = NoFile
    /\ backup = NoFile
    /\ cache = NoCache
    /\ force_refresh = FALSE
    /\ nextVer = 1
    /\ returned = NotCalled
    /\ pre = NoFile
    /\ lastOutcome = "nofetch"
    /\ fetchedVer = 0
    /\ fetches = 0
    /\ partial = FALSE

\* neither load_markets nor get_markets.py is running
RefreshIdle == LoaderIdle /\ FetchIdle

InitRefresh == RefreshIdle /\ PipeIdle

\* load_markets() answered from st.cache_data: the body does not run
LoadCached ==
    /\ cache # NoCache
    /\ returned' = cache
    /\ UNCHANGED <<csv, backup, cache, force_refresh, nextVer, pre,
                   lastOutcome, fetchedVer, fetches, partial>>
    /\ UNCHANGED fetchVars
    /\ UNCHANGED pipeVars

\* load_markets() on a cache miss
LoadMarkets_KeepFlag(outcome, wrote) ==
    /\ cache = NoCache
    /\ (force_refresh \/ ~exists(csv)) => nextVer <= MaxVer
    /\ LET r == LoadBody(force_refresh, outcome, wrote, csv, backup, nextVer) IN
       /\ csv' = r.csv
       /\ backup' = r.backup
       /\ cache' = r.table
       /\ returned' = r.table
       /\ lastOutcome' = IF r.fetch THEN outcome ELSE "nofetch"
       /\ fetchedVer' = IF r.fetch THEN nextVer ELSE 0
       /\ nextVer' = IF r.fetch THEN nextVer + 1 ELSE nextVer
       /\ fetches' = IF r.fetch THEN fetches + 1 ELSE fetches
       /\ partial' = (r.fetch /\ ~FetchWrites(outcome, wrote, csv, nextVer).complete
                              /\ exists(FetchWrites(outcome, wrote, csv, nextVer)))
    /\ UNCHANGED force_refresh
    /\ UNCHANGED pre
    /\ UNCHANGED fetchVars
    /\ UNCHANGED pipeVars
LoadMarkets(outcome, wrote) ==
    /\ cache = NoCache
    /\ (force_refresh \/ ~exists(csv)) => nextVer <= MaxVer
    /\ LET r == LoadBody(force_refresh, outcome, wrote, csv, backup, nextVer) IN
       /\ csv' = r.csv
       /\ backup' = r.backup
       /\ cache' = r.table
       /\ returned' = r.table
       /\ lastOutcome' = IF r.fetch THEN outcome ELSE "nofetch"
       /\ fetchedVer' = IF r.fetch THEN nextVer ELSE 0
       /\ nextVer' = IF r.fetch THEN nextVer + 1 ELSE nextVer
       /\ fetches' = IF r.fetch THEN fetches + 1 ELSE fetches
       /\ partial' = (r.fetch /\ ~FetchWrites(outcome, wrote, csv, nextVer).complete
                              /\ exists(FetchWrites(outcome, wrote, csv, nextVer)))
    /\ force_refresh' = FALSE
    /\ UNCHANGED pre
    /\ UNCHANGED fetchVars
    /\ UNCHANGED pipeVars

\* refresh_data_button with the button pressed.  moveOk = FALSE: shutil.move
\* raised, the flag is not set.
PressRefresh(moveOk) ==
    /\ cache' = NoCache
    /\ IF exists(csv)
          THEN IF moveOk
                  THEN /\ backup' = csv
                       /\ csv' = NoFile
                       /\ force_refresh' = TRUE
                  ELSE UNCHANGED <<csv, backup, force_refresh>>
          ELSE /\ force_refresh' = TRUE
               /\ UNCHANGED <<csv, backup>>
    /\ pre' = IF exists(csv) THEN csv ELSE backup
    /\ returned' = NotCalled
    /\ fetches' = 0
    /\ lastOutcome' = "nofetch"
    /\ fetchedVer' = 0
    /\ partial' = FALSE
    /\ UNCHANGED nextVer
    /\ UNCHANGED fetchVars
    /\ UNCHANGED pipeVars

NextRefresh ==
    \/ LoadCached
    \/ \E o \in Outcomes, w \in BOOLEAN : LoadMarkets(o, w)
    \/ \E m \in BOOLEAN : PressRefresh(m)

SpecRefresh == InitRefresh /\ [][NextRefresh]_vars

(***************************************************************************)
(* Claims on the refresh protocol (checked under SpecRefresh)              *)
(***************************************************************************)
\* a good snapshot was on disk when Refresh was last pressed, and
\* load_markets has returned since
LoadedAfterGoodPress == returned # NotCalled /\ pre.complete

\* C1: Refresh is atomic for the caller: whatever the fetch outcome, the
\* table load_markets returns after a Refresh pressed on a good snapshot is
\* built from the complete pre-refresh snapshot or from the complete new
\* one; it is never empty and never built from a truncated CSV.
C1_RefreshAtomic ==
    LoadedAfterGoodPress =>
        /\ returned # EmptyTable
        /\ returned.complete
        /\ returned.ver \in {pre.ver, fetchedVer}

\* C2: after a Refresh pressed on a good snapshot whose fetch ends with a
\* non-zero return code, load_markets returns the table of the pre-refresh
\* snapshot and that snapshot is still on disk.
C2_NonZeroExitFallsBack ==
    (LoadedAfterGoodPress /\ lastOutcome = "nonzero") =>
        /\ returned = ReadCsv(pre)
        /\ (csv = pre \/ backup = pre)

\* C3: after a Refresh pressed on a good snapshot whose fetch times out or
\* raises, load_markets has moved the backup back over the CSV path (nothing
\* the fetch wrote survives, no backup is left) and returns the table of the
\* pre-refresh snapshot.
C3_TimeoutRestoresBackup ==
    (LoadedAfterGoodPress /\ lastOutcome \in {"timeout", "exception"}) =>
        /\ csv = pre
        /\ backup = NoFile
        /\ returned = ReadCsv(pre)

\* C3 witness: a fetch timed out after leaving a truncated CSV, and the
\* pre-refresh table came back
C3_Witness ==
    /\ LoadedAfterGoodPress
    /\ lastOutcome = "timeout"
    /\ partial
    /\ fetchedVer > pre.ver
    /\ returned = ReadCsv(pre)
    /\ csv = pre

(***************************************************************************)
(* PART 2 - the in-memory table                                            *)
(*                                                                         *)
(* A DataFrame is the sequence df of its rows plus the set cols of its     *)
(* column names; a row is a record with one field per column the model     *)
(* knows, and the field of a column that is not in cols is never read.     *)
(* Text is a sequence of tokens (words and separators).                    *)
(***************************************************************************)
\* np.nan / pd.NaT in a numeric or datetime column
NaN == -999999
IsNaN(x) == x = NaN

Min(S) == CHOOSE x \in S : \A y \in S : x <= y
Max(S) == CHOOSE x \in S : \A y \in S : x >= y

\* p occurs in s as a contiguous run of tokens
IsInfix(p, s) ==
    \E i \in 0..(Len(s) - Len(p)) : SubSeq(s, i + 1, i + Len(p)) = p

\* a missing (NaN) cell of the event_tags_labels column
NaTags == [na |-> TRUE, labels |-> {}]

\* columns of the snapshot the model follows
StatusCols == {"market_active", "market_closed", "enable_order_book", "accepting_orders"}
EndDateCols == {"market_endDateIso", "market_endDate", "event_endDate"}
RawCols == StatusCols \cup EndDateCols \cup
           {"market_id", "liquidity_num", "volume_24h", "bestBid", "bestAsk",
            "event_tags_labels", "event_title", "market_question", "outcomes_raw"}
FlagCols == {"is_elections", "is_global_elections", "is_politics", "is_crypto",
             "is_crypto_prices", "is_tech", "is_finance", "is_sports", "is_culture"}

\* a row with every raw cell missing or at its neutral value, and the derived
\* cells not yet computed
BaseRow ==
    [market_id |-> 1,
     market_active |-> TRUE, market_closed |-> FALSE,
     enable_order_book |-> TRUE, accepting_orders |-> TRUE,
     liquidity_num |-> NaN, volume_24h |-> NaN, bestBid |-> NaN, bestAsk |-> NaN,
     market_endDateIso |-> NaN, market_endDate |-> NaN, event_endDate |-> NaN,
     event_tags_labels |-> NaTags,
     event_title |-> <<>>, market_question |-> <<>>, outcomes_raw |-> <<>>,
     spread |-> NaN, mid_price |-> NaN, time_to_resolution_days |-> NaN,
     is_binary_like |-> FALSE,
     is_elections |-> FALSE, is_global_elections |-> FALSE, is_politics |-> FALSE,
     is_crypto |-> FALSE, is_crypto_prices |-> FALSE, is_tech |-> FALSE,
     is_finance |-> FALSE, is_sports |-> FALSE, is_culture |-> FALSE,
     domain |-> "", p_true |-> NaN, implied_prob |-> NaN, edge |-> NaN,
     quality_score |-> NaN]

Rows(d) == 1..Len(d)

(***************************************************************************)
(* PART 3 - features.py: domain classifier                                 *)
(***************************************************************************)
\* tag labels an event can carry, each a sequence of words.  The fetcher
\* joins the labels of an event with "|"; the order of the labels does not
\* matter to a substring search, so a tag text is the set of its labels.
\* "Technology" and "Business" are labels none of the nine names matches.
TagVocabulary ==
    {<<"Sports">>, <<"Global", "Elections">>, <<"Elections">>, <<"Politics">>,
     <<"Crypto">>, <<"Crypto", "Prices">>, <<"Tech">>, <<"Finance">>,
     <<"Culture">>, <<"Technology">>, <<"Business">>}

TagTexts == {NaTags} \cup [na : {FALSE}, labels : SUBSET TagVocabulary]

\* s = tags_col.fillna("").astype(str)
FillTags(t) == IF t.na THEN {} ELSE t.labels

\* has_tag(name): s.str.contains(rf"\b{name}\b"): the words of name occur
\* as whole words, in a row, inside one label
has_tag(name, s) == \E l \in s : IsInfix(name, l)

\* the if/elif chain that labels a row from its flags
DomainOf_ElectionsFirst(r) ==
    IF r.is_global_elections \/ r.is_elections THEN "Elections"
    ELSE IF r.is_sports THEN "Sports"
    ELSE IF r.is_politics THEN "Politics"
    ELSE IF r.is_crypto_prices THEN "Crypto Prices"
    ELSE IF r.is_crypto THEN "Crypto"
    ELSE IF r.is_tech THEN "Tech"
    ELSE IF r.is_finance THEN "Finance"
    ELSE IF r.is_culture THEN "Culture"
    ELSE "Other"
DomainOf(r) ==
    IF r.is_sports THEN "Sports"
    ELSE IF r.is_global_elections \/ r.is_elections THEN "Elections"
    ELSE IF r.is_politics THEN "Politics"
    ELSE IF r.is_crypto_prices THEN "Crypto Prices"
    ELSE IF r.is_crypto THEN "Crypto"
    ELSE IF r.is_tech THEN "Tech"
    ELSE IF r.is_finance THEN "Finance"
    ELSE IF r.is_culture THEN "Culture"
    ELSE "Other"

\* the nine flag columns of one row
WithFlags(r) ==
    LET s == FillTags(r.event_tags_labels) IN
    [r EXCEPT !.is_elections = has_tag(<<"Elections">>, s),
              !.is_global_elections = has_tag(<<"Global", "Elections">>, s),
              !.is_politics = has_tag(<<"Politics">>, s),
              !.is_crypto = has_tag(<<"Crypto">>, s),
              !.is_crypto_prices = has_tag(<<"Crypto", "Prices">>, s),
              !.is_tech = has_tag(<<"Tech">>, s),
              !.is_finance = has_tag(<<"Finance">>, s),
              !.is_sports = has_tag(<<"Sports">>, s),
              !.is_culture = has_tag(<<"Culture">>, s)]

NoFlags(r) ==
    [r EXCEPT !.is_elections = FALSE, !.is_global_elections = FALSE,
              !.is_politics = FALSE, !.is_crypto = FALSE,
              !.is_crypto_prices = FALSE, !.is_tech = FALSE,
              !.is_finance = FALSE, !.is_sports = FALSE, !.is_culture = FALSE]

\* add_domain_flags(df): without the tag column the nine flags are set to
\* False and the function returns before it adds the domain column
add_domain_flags(d, c) ==
    IF "event_tags_labels" \notin c
        THEN [df |-> [i \in Rows(d) |-> NoFlags(d[i])],
              cols |-> c \cup FlagCols]
        ELSE [df |-> [i \in Rows(d) |->
                        LET f == WithFlags(d[i]) IN [f EXCEPT !.domain = DomainOf(f)]],
              cols |-> c \cup FlagCols \cup {"domain"}]

\* inputs: one-row tables over every tag text, with and without the column
InitDomain ==
    /\ RefreshIdle
    /\ \E t \in TagTexts, present \in BOOLEAN :
         /\ present \/ t = NaTags
         /\ df = <<[BaseRow EXCEPT !.event_tags_labels = t]>>
         /\ cols = IF present THEN RawCols ELSE RawCols \ {"event_tags_labels"}
    /\ now = 0
    /\ pc = "normalised"
    /\ ui = NoUi
    /\ hist = NoHist

AddDomainFlags ==
    /\ pc = "normalised"
    /\ LET r == add_domain_flags(df, cols) IN
       /\ df' = r.df
       /\ cols' = r.cols
    /\ pc' = "flagged"
    /\ UNCHANGED <<now, ui, hist>>
    /\ UNCHANGED refreshVars

NextDomain == AddDomainFlags

SpecDomain == InitDomain /\ [][NextDomain]_vars

\* the priority order of the labels, as (label, flags that select it)
DomainPriority ==
    <<[label |-> "Sports", flags |-> {"is_sports"}],
      [label |-> "Elections", flags |-> {"is_global_elections", "is_elections"}],
      [label |-> "Politics", flags |-> {"is_politics"}],
      [label |-> "Crypto Prices", flags |-> {"is_crypto_prices"}],
      [label |-> "Crypto", flags |-> {"is_crypto"}],
      [label |-> "Tech", flags |-> {"is_tech"}],
      [label |-> "Finance", flags |-> {"is_finance"}],
      [label |-> "Culture", flags |-> {"is_culture"}]>>

\* positions of the priority list whose condition is true of row r
Hits(r) == {k \in 1..Len(DomainPriority) : \E f \in DomainPriority[k].flags : r[f]}

\* C4: the domain label of every record is the label of the first true
\* condition in the order Sports, Elections (Global Elections or Elections),
\* Politics, Crypto Prices, Crypto, Tech, Finance, Culture, else Other; a
\* record with is_sports is labelled Sports whatever else is true.
C4_DomainPriority ==
    (pc = "flagged" /\ "domain" \in cols) =>
        \A i \in Rows(df) :
            /\ df[i].domain = IF Hits(df[i]) = {} THEN "Other"
                              ELSE DomainPriority[Min(Hits(df[i]))].label
            /\ df[i].is_sports => df[i].domain = "Sports"

\* C4 witness: a record tagged for every one of the nine names is Sports
C4_Witness ==
    /\ pc = "flagged"
    /\ "domain" \in cols
    /\ \E i \in Rows(df) :
          /\ \A f \in FlagCols : df[i][f]
          /\ df[i].domain = "Sports"

(***************************************************************************)
(* PART 4 - features.py: compute_quality_score                             *)
(*                                                                         *)
(* Units: liquidity and volume in whole dollars, prices and spreads in     *)
(* thousandths (0.10 is 100), times in whole days.  A component score is a *)
(* fixed-point number with ScoreOne for 1.0; quality_score is the weighted *)
(* sum with weights in hundredths, so QualityOne stands for 1.0.           *)
(***************************************************************************)
ScoreOne == 10000
QualityOne == 100 * ScoreOne

\* liquidity values of the model and np.log1p of them in thousandths
LiqValues == {0, 100, 500, 5000}
log1p(x) ==
    CASE x = 0 -> 0
      [] x = 1 -> 693
      [] x = 100 -> 4615
      [] x = 150 -> 5017
      [] x = 200 -> 5303
      [] x = 500 -> 6217
      [] x = 1000 -> 6909
      [] x = 5000 -> 8517
      [] x = 25000 -> 10127

fillna(x, v) == IF IsNaN(x) THEN v ELSE x

\* df.get(col, default): the cell of a column, or the default when the
\* DataFrame has no such column
Cell(r, c, col, default) == IF col \in c THEN r[col] ELSE default

\* vol_score = np.minimum(vol_24h / 1000.0, 1.0)
vol_score(v) == IF v >= 1000 THEN ScoreOne ELSE 10 * v

\* spread_score = 1 - min(max(spread.fillna(1.0), 0) / 0.10, 1)
spread_score(sp) ==
    LET safe == Max({fillna(sp, 1000), 0}) IN
    ScoreOne - Min({100 * safe, ScoreOne})

\* time_score = 1 - min(max(ttr.fillna(100), 0) / 100, 1)
time_score(t) ==
    LET safe == Max({fillna(t, 100), 0}) IN
    ScoreOne - Min({100 * safe, ScoreOne})

\* liq.max() of the whole DataFrame (NaN for a DataFrame without rows)
max_liq_FirstRow(d, c) ==
    IF Len(d) = 0 THEN NaN
    ELSE fillna(Cell(d[1], c, "liquidity_num", 0), 0)
max_liq(d, c) ==
    IF Len(d) = 0 THEN NaN
    ELSE Max({fillna(Cell(d[i], c, "liquidity_num", 0), 0) : i \in Rows(d)})

\* liq_score = log1p(liq) / log1p(max_liq) when max_liq > 0, else 0.0
liq_score_FixedMax(l, m) ==
    IF ~IsNaN(m) /\ m > 0 THEN (log1p(l) * ScoreOne) \div log1p(25000) ELSE 0
liq_score(l, m) ==
    IF ~IsNaN(m) /\ m > 0 THEN (log1p(l) * ScoreOne) \div log1p(m) ELSE 0

\* compute_quality_score(df): the score column, one value per row
compute_quality_score(d, c) ==
    LET m == max_liq(d, c) IN
    [i \in Rows(d) |->
        LET liq == fillna(Cell(d[i], c, "liquidity_num", 0), 0)
            vol == fillna(Cell(d[i], c, "volume_24h", 0), 0)
            sp == Cell(d[i], c, "spread", NaN)
            ttr == Cell(d[i], c, "time_to_resolution_days", NaN)
        IN 35 * liq_score(liq, m) + 30 * vol_score(vol)
           + 20 * spread_score(sp) + 15 * time_score(ttr)]

\* inputs of the score.  The fetcher drops markets with liquidity below
\* MIN_LIQUIDITY = 0, so liquidity is missing or non-negative; the other
\* three are whatever the snapshot and the clock make them.
LiqCells == LiqValues \cup {NaN}
VolCells == {NaN, -1000, 0, 500, 2000}
SpreadCells == {NaN, -20, 0, 50, 150}
TtrCells == {NaN, -5, 0, 30, 200}

\* the rows after the first differ in liquidity only: the one thing a row's
\* score takes from the other rows is the maximum liquidity of the table
QualityTables ==
    {<<>>} \cup
    UNION {{<<[BaseRow EXCEPT !.liquidity_num = l, !.volume_24h = v,
                             !.spread = sp, !.time_to_resolution_days = t]>>
              \o [i \in 1..(n - 1) |->
                    [BaseRow EXCEPT !.market_id = i + 1, !.liquidity_num = rest[i],
                                    !.volume_24h = 0]]
            : l \in LiqCells, v \in VolCells, sp \in SpreadCells, t \in TtrCells,
              rest \in [1..(n - 1) -> LiqCells]} : n \in 1..MaxRows}

ScoreInputCols == RawCols \cup {"spread", "mid_price", "time_to_resolution_days"}

InitQuality ==
    /\ RefreshIdle
    /\ \E t \in QualityTables, absent \in {{}, {"liquidity_num"}, {"volume_24h"}} :
         /\ \A i \in Rows(t), a \in absent : IsNaN(t[i][a])
         /\ absent # {} => Len(t) = 1
         /\ df = t
         /\ cols = ScoreInputCols \ absent
    /\ now = 0
    /\ pc = "scoring"
    /\ ui = NoUi
    /\ hist = NoHist

ComputeQualityScore ==
    /\ pc = "scoring"
    /\ LET q == compute_quality_score(df, cols) IN
       df' = [i \in Rows(df) |-> [df[i] EXCEPT !.quality_score = q[i]]]
    /\ cols' = cols \cup {"quality_score"}
    /\ pc' = "scored"
    /\ UNCHANGED <<now, ui, hist>>
    /\ UNCHANGED refreshVars

NextQuality == ComputeQualityScore

SpecQuality == InitQuality /\ [][NextQuality]_vars

\* C5: every record's quality_score lies in [0, 1], whatever its
\* liquidity_num, volume_24h, spread and time_to_resolution_days are
\* (present, missing, zero or negative), and a record with liquidity 0,
\* volume 0, missing spread and missing time scores exactly 0.
C5_QualityBounds ==
    pc = "scored" =>
        \A i \in Rows(df) :
            /\ 0 <= df[i].quality_score
            /\ df[i].quality_score <= QualityOne
            /\ (/\ Cell(df[i], cols, "liquidity_num", 0) = 0
                /\ Cell(df[i], cols, "volume_24h", 0) = 0
                /\ IsNaN(df[i].spread)
                /\ IsNaN(df[i].time_to_resolution_days)) => df[i].quality_score = 0

(***************************************************************************)
(* PART 5 - features.py: add_features                                      *)
(***************************************************************************)
\* furthest the wall clock advances in a behaviour, in days
MaxClock == 2

\* first position of token x in s (0: none)
Find(s, x) == IF \E k \in 1..Len(s) : s[k] = x
                 THEN Min({k \in 1..Len(s) : s[k] = x}) ELSE 0

\* str.split(sep)
RECURSIVE split(_, _)
split(s, sep) ==
    IF Find(s, sep) = 0 THEN <<s>>
    ELSE <<SubSeq(s, 1, Find(s, sep) - 1)>>
            \o split(SubSeq(s, Find(s, sep) + 1, Len(s)), sep)

\* str.strip(chars): drop leading and trailing tokens that are in chars
RECURSIVE strip(_, _)
strip(s, chars) ==
    IF Len(s) = 0 THEN s
    ELSE IF s[1] \in chars THEN strip(Tail(s), chars)
    ELSE IF s[Len(s)] \in chars THEN strip(SubSeq(s, 1, Len(s) - 1), chars)
    ELSE s

Whitespace == {" "}

\* _looks_binary(outcomes_raw); the empty text stands for a missing cell
\* (read_csv yields NaN for an empty field)
looks_binary_AtLeastTwo(raw) ==
    IF raw = <<>> THEN FALSE
    ELSE
    LET text == strip(raw, Whitespace)
        candidates ==
            IF Len(text) > 0 /\ text[1] = "[" /\ text[Len(text)] = "]"
            THEN LET inner == split(SubSeq(text, 2, Len(text) - 1), ",") IN
                 [k \in 1..Len(inner) |->
                     strip(strip(strip(inner[k], Whitespace), {"\""}), {"'"})]
            ELSE IF Find(text, ",") # 0
            THEN LET parts == split(text, ",") IN
                 [k \in 1..Len(parts) |-> strip(parts[k], Whitespace)]
            ELSE IF Find(text, "|") # 0
            THEN LET parts == split(text, "|") IN
                 [k \in 1..Len(parts) |-> strip(parts[k], Whitespace)]
            ELSE <<text>>
        tokens == {k \in 1..Len(candidates) : candidates[k] # <<>>}
    IN Cardinality(tokens) >= 2
looks_binary(raw) ==
    IF raw = <<>> THEN FALSE
    ELSE
    LET text == strip(raw, Whitespace)
        candidates ==
            IF Len(text) > 0 /\ text[1] = "[" /\ text[Len(text)] = "]"
            THEN LET inner == split(SubSeq(text, 2, Len(text) - 1), ",") IN
                 [k \in 1..Len(inner) |->
                     strip(strip(strip(inner[k], Whitespace), {"\""}), {"'"})]
            ELSE IF Find(text, ",") # 0
            THEN LET parts == split(text, ",") IN
                 [k \in 1..Len(parts) |-> strip(parts[k], Whitespace)]
            ELSE IF Find(text, "|") # 0
            THEN LET parts == split(text, "|") IN
                 [k \in 1..Len(parts) |-> strip(parts[k], Whitespace)]
            ELSE <<text>>
        tokens == {k \in 1..Len(candidates) : candidates[k] # <<>>}
    IN Cardinality(tokens) = 2

\* spread = bestAsk - bestBid; NaN when either is missing
SpreadOf(r) == IF IsNaN(r.bestAsk) \/ IsNaN(r.bestBid) THEN NaN
               ELSE r.bestAsk - r.bestBid

\* mid_price = (bestBid + bestAsk) / 2.0, kept in half-thousandths
MidOf(r) == IF IsNaN(r.bestAsk) \/ IsNaN(r.bestBid) THEN NaN
            ELSE r.bestBid + r.bestAsk

\* the column add_features takes the resolution date from: the first of the
\* three that the DataFrame HAS ("" when it has none of them)
EndColumn(c) ==
    IF "market_endDateIso" \in c THEN "market_endDateIso"
    ELSE IF "market_endDate" \in c THEN "market_endDate"
    ELSE IF "event_endDate" \in c THEN "event_endDate"
    ELSE ""

\* time_to_resolution_days = (end - now) in days; NaN where end is NaT or
\* where there is no end column
TimeToResolution(r, c, t) ==
    IF EndColumn(c) = "" THEN NaN
    ELSE IF IsNaN(r[EndColumn(c)]) THEN NaN
    ELSE r[EndColumn(c)] - t

\* add_features(df) run when the clock shows t
add_features(d, c, t) ==
    LET step1 == [i \in Rows(d) |->
            [d[i] EXCEPT
               !.spread = IF {"bestBid", "bestAsk"} \subseteq c THEN SpreadOf(d[i]) ELSE NaN,
               !.mid_price = IF {"bestBid", "bestAsk"} \subseteq c THEN MidOf(d[i]) ELSE NaN,
               !.time_to_resolution_days = TimeToResolution(d[i], c, t),
               !.is_binary_like = IF "outcomes_raw" \in c
                                     THEN looks_binary(d[i].outcomes_raw) ELSE FALSE]]
        c1 == c \cup {"spread", "mid_price", "time_to_resolution_days", "is_binary_like"}
        flagged == add_domain_flags(step1, c1)
        c2 == flagged.cols \cup {"p_true", "implied_prob", "edge"}
        q == compute_quality_score(flagged.df, c2)
    IN [df |-> [i \in Rows(d) |->
                  [flagged.df[i] EXCEPT !.p_true = NaN,
                                        !.implied_prob = flagged.df[i].mid_price,
                                        !.edge = NaN,
                                        !.quality_score = q[i]]],
        cols |-> c2 \cup {"quality_score"}]

\* JSON text of the outcome list ["Yes", "No"]
YesNo == <<"[", "\"", "Yes", "\"", ",", " ", "\"", "No", "\"", "]">>

\* first row of the input tables: bestBid 0.40, bestAsk 0.45, liquidity 500,
\* 24h volume 200, tagged Politics
ScenarioRow ==
    [BaseRow EXCEPT !.bestBid = 400, !.bestAsk = 450, !.liquidity_num = 500,
                    !.volume_24h = 200, !.outcomes_raw = YesNo,
                    !.event_tags_labels = [na |-> FALSE, labels |-> {<<"Politics">>}]]

\* the three end dates of a row, in days on the model's clock
EndDates == [market_endDateIso : {NaN, 30}, market_endDate : {NaN, 31},
             event_endDate : {NaN, 60}]

WithEndDates(r, e) ==
    [r EXCEPT !.market_endDateIso = e.market_endDateIso,
              !.market_endDate = e.market_endDate,
              !.event_endDate = e.event_endDate]

FeatureTables ==
    UNION {{[i \in 1..n |->
               WithEndDates(IF i = 1 THEN ScenarioRow
                            ELSE [BaseRow EXCEPT !.market_id = i, !.liquidity_num = 5000],
                            e[i])]
            : e \in [1..n -> EndDates]} : n \in 1..MaxRows}

InitFeatures ==
    /\ RefreshIdle
    /\ \E t \in FeatureTables, absent \in SUBSET EndDateCols :
         /\ \A i \in Rows(t), a \in absent : IsNaN(t[i][a])
         /\ df = t
         /\ cols = RawCols \ absent
         /\ hist = [input |-> t, inputCols |-> RawCols \ absent,
                    prevOut |-> <<>>, reran |-> FALSE, runNow |-> 0]
    /\ now = 0
    /\ pc = "normalised"
    /\ ui = NoUi

\* the wall clock advances
Tick ==
    /\ now < MaxClock
    /\ now' = now + 1
    /\ UNCHANGED <<df, cols, pc, ui, hist>>
    /\ UNCHANGED refreshVars

\* load_markets reaches add_features
AddFeatures ==
    /\ pc = "normalised"
    /\ LET r == add_features(df, cols, now) IN
       /\ df' = r.df
       /\ cols' = r.cols
    /\ pc' = "featured"
    /\ hist' = [hist EXCEPT !.runNow = now]
    /\ UNCHANGED <<now, ui>>
    /\ UNCHANGED refreshVars

\* the cache entry is dropped and the same snapshot is read and normalised
\* again (Refresh pressed and the fetch failed, or the server restarted)
Reload ==
    /\ pc = "featured"
    /\ df' = hist.input
    /\ cols' = hist.inputCols
    /\ hist' = [hist EXCEPT !.prevOut = df, !.reran = TRUE]
    /\ pc' = "normalised"
    /\ UNCHANGED <<now, ui>>
    /\ UNCHANGED refreshVars

NextFeatures == Tick \/ AddFeatures \/ Reload

SpecFeatures == InitFeatures /\ [][NextFeatures]_vars

\* C6: two runs of the pipeline on the same snapshot produce identical
\* tables, time_to_resolution_days and the scores derived from it included.
C6_Deterministic ==
    (pc = "featured" /\ hist.reran) => df = hist.prevOut

\* the first non-missing value among the three end dates of row r, taking a
\* column the table lacks as missing
FirstEndDate(r, c) ==
    IF "market_endDateIso" \in c /\ ~IsNaN(r.market_endDateIso) THEN r.market_endDateIso
    ELSE IF "market_endDate" \in c /\ ~IsNaN(r.market_endDate) THEN r.market_endDate
    ELSE IF "event_endDate" \in c /\ ~IsNaN(r.event_endDate) THEN r.event_endDate
    ELSE NaN

\* C7: for each record the resolution timestamp is the first non-missing of
\* market_endDateIso, market_endDate, event_endDate, and
\* time_to_resolution_days is missing only when all three are missing.
C7_EndDatePriority ==
    pc = "featured" =>
        \A i \in Rows(df) :
            df[i].time_to_resolution_days =
                IF IsNaN(FirstEndDate(df[i], cols)) THEN NaN
                ELSE FirstEndDate(df[i], cols) - hist.runNow

(***************************************************************************)
(* PART 6 - filters.py: apply_global_filters                               *)
(*                                                                         *)
(* The chain is followed widget by widget: pc names the step to run next,  *)
(* ui holds what the widget of the step just run returned, hist.before the *)
(* table that step received and hist.input the table the chain received.   *)
(***************************************************************************)
\* str.lower() of a token
lower(tok) ==
    CASE tok = "Up" -> "up"
      [] tok = "Down" -> "down"
      [] tok = "Bitcoin" -> "bitcoin"
      [] tok = "Will" -> "will"
      [] tok = "X" -> "x"
      [] tok = "Team" -> "team"
      [] tok = "A" -> "a"
      [] tok = "B" -> "b"
      [] tok = "Tech" -> "tech"
      [] OTHER -> tok

Lower(s) == [k \in 1..Len(s) |-> lower(s[k])]

\* st.slider(min_value, max_value, value=(lo, hi)): the widget widens its
\* bounds to contain the default and swaps a reversed default; it returns
\* the default until the user moves a handle inside the bounds
Slider(min_value, max_value, lo, hi) ==
    LET min1 == Min({min_value, max_value})
        max1 == Max({min1, max_value})
        start == Min({lo, hi})
        end == Max({lo, hi})
    IN [min |-> Min({start, min1}), max |-> Max({end, max1}),
        lo |-> start, hi |-> end]

\* the pairs a range slider can return: its default, or two of the given
\* handle positions that lie inside its bounds
SliderValues(sl, points) ==
    LET inside == {x \in points : sl.min <= x /\ x <= sl.max} IN
    {<<sl.lo, sl.hi>>} \cup {p \in inside \X inside : p[1] <= p[2]}

\* the mask of the tradeable step for one row; a status column the table
\* lacks contributes its default (True, ~False, True, True)
TradeableRow(r, c) ==
    /\ Cell(r, c, "market_active", TRUE)
    /\ ~Cell(r, c, "market_closed", FALSE)
    /\ Cell(r, c, "enable_order_book", TRUE)
    /\ Cell(r, c, "accepting_orders", TRUE)

\* with none of the four columns the mask is the Python int
\* True & ~False & True & True = 1, and df[1] raises KeyError
TradeableRaises(c) == StatusCols \cap c = {}

\* df[mask] of the tradeable step
TradeableFilter_DropFirst(d, c) ==
    LET bad == {i \in Rows(d) : ~TradeableRow(d[i], c)} IN
    IF bad = {} THEN d
    ELSE SubSeq(d, 1, Min(bad) - 1) \o SubSeq(d, Min(bad) + 1, Len(d))
TradeableFilter(d, c) == SelectSeq(d, LAMBDA r : TradeableRow(r, c))

\* float(col.max() or 1_000) of a column with missing cells filled with 0:
\* NaN for a table without rows, 1000 when the maximum is 0
MaxOr1000(d, col) ==
    IF Len(d) = 0 THEN NaN
    ELSE LET m == Max({fillna(d[i][col], 0) : i \in Rows(d)}) IN
         IF m = 0 THEN 1000 ELSE m

MinFilled(d, col) == Min({fillna(d[i][col], 0) : i \in Rows(d)})

\* (col.fillna(v) >= lo) & (col.fillna(v) <= hi)
InRange(d, col, v, lo, hi) ==
    SelectSeq(d, LAMBDA r : fillna(r[col], v) >= lo /\ fillna(r[col], v) <= hi)

\* handle positions the model moves the sliders to
LiqPoints == {0, 250, 1000}
VolPoints == {0, 500}
SpreadPoints == {0, 20}
TtrPoints == {0, 10, 100}

\* the liquidity slider of a table with rows
LiquiditySlider(d) ==
    LET liq_max == MaxOr1000(d, "liquidity_num")
        default_min_liq == Max({MinFilled(d, "liquidity_num"), 0})
    IN Slider(0, liq_max, default_min_liq, liq_max)

\* the volume slider of a table with rows (for a table without rows its
\* max_value and default are NaN)
VolumeSlider(d) ==
    LET vol_max == MaxOr1000(d, "volume_24h") IN Slider(0, vol_max, 0, vol_max)

\* the pairs the volume slider can return
VolumeChoices(d) ==
    IF Len(d) = 0 THEN {<<0, NaN>>} ELSE SliderValues(VolumeSlider(d), VolPoints)

\* rows used to build the input tables of the chain
CatalogueRaw ==
    <<[ScenarioRow EXCEPT !.market_endDateIso = 30,
                          !.event_title = <<"Will", "X", "win">>,
                          !.market_question = <<"Will", "X", "win", "?">>],
      [BaseRow EXCEPT !.liquidity_num = 5000, !.volume_24h = 2000,
                      !.bestBid = 500, !.bestAsk = 510, !.market_endDateIso = 5,
                      !.event_tags_labels = [na |-> FALSE,
                                             labels |-> {<<"Sports">>, <<"Politics">>}],
                      !.event_title = <<"Team", "A", "vs", "Team", "B">>,
                      !.market_question = <<"Team", "A", "?">>,
                      !.outcomes_raw = <<"A", "|", "B">>],
      [BaseRow EXCEPT !.market_closed = TRUE, !.liquidity_num = 100, !.volume_24h = 0,
                      !.bestBid = 100, !.bestAsk = 300, !.market_endDateIso = 120,
                      !.event_tags_labels = [na |-> FALSE, labels |-> {<<"Tech">>}],
                      !.event_title = <<"Tech", "launch">>,
                      !.market_question = <<"launch", "?">>,
                      !.outcomes_raw = <<"[", "\"", "A", "\"", ",", "\"", "B", "\"", ",",
                                         "\"", "C", "\"", "]">>],
      [BaseRow EXCEPT !.liquidity_num = 0, !.volume_24h = 0,
                      !.event_tags_labels = [na |-> FALSE,
                                             labels |-> {<<"Crypto">>, <<"Crypto", "Prices">>}],
                      !.event_title = <<"Bitcoin", "Up", "or", "Down">>,
                      !.market_question = <<"Bitcoin", "?">>,
                      !.outcomes_raw = <<"Up", "|", "Down">>],
      [BaseRow EXCEPT !.liquidity_num = 500, !.volume_24h = 200,
                      !.bestBid = 500, !.bestAsk = 500, !.market_endDateIso = 400,
                      !.event_title = <<"bitcoin", "up", "or", "down">>,
                      !.market_question = <<"bitcoin", "?">>],
      [BaseRow EXCEPT !.market_active = FALSE, !.accepting_orders = FALSE,
                      !.liquidity_num = 5000, !.volume_24h = 500,
                      !.bestBid = 300, !.bestAsk = 320, !.market_endDateIso = -5,
                      !.event_tags_labels = [na |-> FALSE, labels |-> {<<"Finance">>}],
                      !.event_title = <<"Rates", "Up">>,
                      !.market_question = <<"Rates", "?">>,
                      !.outcomes_raw = YesNo],
      [BaseRow EXCEPT !.liquidity_num = 1000, !.volume_24h = 500,
                      !.bestBid = 400, !.bestAsk = 420,
                      !.event_tags_labels = [na |-> FALSE, labels |-> {<<"Culture">>}],
                      !.event_title = <<"Will", "X", "win">>,
                      !.market_question = <<"Will", "X", "win", "?">>,
                      !.outcomes_raw = YesNo]>>

Catalogue == [k \in 1..Len(CatalogueRaw) |-> [CatalogueRaw[k] EXCEPT !.market_id = k]]

\* the rows of the catalogue with index in S, in catalogue order
RECURSIVE Pick(_, _)
Pick(S, k) ==
    IF k > Len(Catalogue) THEN <<>>
    ELSE IF k \in S THEN <<Catalogue[k]>> \o Pick(S, k + 1)
    ELSE Pick(S, k + 1)

RawTables == {Pick(S, 1) : S \in {T \in SUBSET (1..Len(Catalogue)) :
                                      Cardinality(T) \in 1..MaxRows}}

\* columns a snapshot may lack
AbsentChoices == {{}, StatusCols, {"market_closed"}, StatusCols \ {"market_closed"},
                  {"event_tags_labels"}}

\* the table load_markets hands to the chain: a normalised snapshot with
\* its derived columns, or the column-less pd.DataFrame() of a failed load
InitFilters ==
    /\ RefreshIdle
    /\ \/ \E t \in RawTables, absent \in AbsentChoices :
            /\ \A i \in Rows(t), a \in absent : t[i][a] = BaseRow[a]
            /\ df = add_features(t, RawCols \ absent, 0).df
            /\ cols = add_features(t, RawCols \ absent, 0).cols
       \/ /\ df = <<>>
          /\ cols = {}
    /\ hist = [input |-> df, before |-> df]
    /\ now = 0
    /\ pc = "tradeable"
    /\ ui = [last |-> "none"]

\* checkbox "Only tradeable markets", then "if df.empty: return df"
TradeableStep(tradeable) ==
    /\ pc = "tradeable"
    /\ hist' = [hist EXCEPT !.before = df]
    /\ ui' = [last |-> "tradeable", tradeable |-> tradeable]
    /\ IF tradeable /\ TradeableRaises(cols)
          THEN pc' = "raised" /\ df' = df
          ELSE /\ df' = IF tradeable THEN TradeableFilter(df, cols) ELSE df
               /\ pc' = IF Len(df') = 0 THEN "done" ELSE "liquidity"
    /\ UNCHANGED <<cols, now>>
    /\ UNCHANGED refreshVars

\* slider "Liquidity (liquidity_num)" and its range filter; v is the pair
\* the slider returns
LiquidityStep ==
    /\ pc = "liquidity"
    /\ \E v \in SliderValues(LiquiditySlider(df), LiqPoints) :
        /\ hist' = [hist EXCEPT !.before = df]
        /\ ui' = [last |-> "liquidity", lo |-> v[1], hi |-> v[2]]
        /\ df' = InRange(df, "liquidity_num", 0, v[1], v[2])
        /\ pc' = "volume"
        /\ UNCHANGED <<cols, now>>
        /\ UNCHANGED refreshVars

\* slider "24h Volume (volume_24h)" and its range filter.  For a table
\* without rows the slider is created with max_value = NaN and
\* value = (0.0, NaN); what st.slider does with such bounds is Streamlit's
\* choice: it raises (sliderOk = FALSE) or hands the default back.
VolumeStep ==
    /\ pc = "volume"
    /\ \E v \in VolumeChoices(df), sliderOk \in BOOLEAN :
        /\ hist' = [hist EXCEPT !.before = df]
        /\ ui' = [last |-> "volume", lo |-> v[1], hi |-> v[2]]
        /\ IF Len(df) = 0
              THEN /\ df' = df
                   /\ pc' = IF sliderOk THEN "spread" ELSE "raised"
              ELSE /\ sliderOk
                   /\ df' = InRange(df, "volume_24h", 0, v[1], v[2])
                   /\ pc' = "spread"
        /\ UNCHANGED <<cols, now>>
        /\ UNCHANGED refreshVars

\* cells of a column that are not missing
NotNa(d, col) == {d[i][col] : i \in {j \in Rows(d) : ~IsNaN(d[j][col])}}

\* the spread slider: bounds from the spreads present, else 0.0 .. 0.3
SpreadSlider(d) ==
    LET spread_max_val == IF NotNa(d, "spread") # {}
                             THEN Max({10, Max(NotNa(d, "spread"))}) ELSE 300
    IN Slider(0, spread_max_val, 0, Min({100, spread_max_val}))

\* the arguments of the time slider: bounds from the times present clamped
\* to [-30, 365], default (0, 90) clamped to those bounds
TimeSliderArgs(d) ==
    LET present == NotNa(d, "time_to_resolution_days")
        lo0 == IF present # {} THEN Min(present) ELSE -30
        hi0 == IF present # {} THEN Max(present) ELSE 365
        ttr_min_val == Max({-30, lo0})
        ttr_max_val == Min({365, IF hi0 > 0 THEN hi0 ELSE 365})
        default_ttr_min == Max({0, ttr_min_val})
        default_ttr_max == Min({90, ttr_max_val})
    IN [min_value |-> ttr_min_val, max_value |-> Max({ttr_max_val, ttr_min_val + 1}),
        default_ttr_min |-> default_ttr_min, default_ttr_max |-> default_ttr_max]

\* the widget st.sidebar.slider makes of those arguments
TimeSlider(d) ==
    LET a == TimeSliderArgs(d) IN
    Slider(a.min_value, a.max_value, a.default_ttr_min, a.default_ttr_max)

\* value a missing time_to_resolution_days is compared as (1e9)
BigTime == 1000000000

\* sorted(df["domain"].dropna().unique()), as a set
DomainOptions(d) == {d[i].domain : i \in Rows(d)}

\* "if selected_domains: df = df[df['domain'].isin(selected_domains)]"
DomainFilter_Always(d, selected) ==
    SelectSeq(d, LAMBDA r : r.domain \in selected)
DomainFilter(d, selected) ==
    IF selected # {} THEN SelectSeq(d, LAMBDA r : r.domain \in selected) ELSE d

\* texts typed into the search box (the empty text: no search)
SearchTerms == {<<>>, <<"Bitcoin">>, <<"team", "a">>, <<"zzz">>}

\* the search filter: lower-cased question or title contains search.lower()
SearchFilter_LowerInPlace(d, search) ==
    IF search # <<>>
        THEN SelectSeq([i \in Rows(d) |->
                          [d[i] EXCEPT !.market_question = Lower(@),
                                       !.event_title = Lower(@)]],
                       LAMBDA r : \/ IsInfix(Lower(search), r.market_question)
                                  \/ IsInfix(Lower(search), r.event_title))
        ELSE d
SearchFilter(d, search) ==
    IF search # <<>>
        THEN SelectSeq(d, LAMBDA r : \/ IsInfix(Lower(search), Lower(r.market_question))
                                     \/ IsInfix(Lower(search), Lower(r.event_title)))
        ELSE d

\* ~title.str.contains("Up or Down", case=False)
UpDownFilter_PatternLowered(d) ==
    SelectSeq(d, LAMBDA r : ~IsInfix(Lower(<<"Up", "or", "Down">>), r.event_title))
UpDownFilter(d) ==
    SelectSeq(d, LAMBDA r : ~IsInfix(Lower(<<"Up", "or", "Down">>), Lower(r.event_title)))

\* slider "Spread (bestAsk - bestBid)" and its range filter
SpreadStep ==
    /\ pc = "spread"
    /\ \E v \in SliderValues(SpreadSlider(df), SpreadPoints) :
        /\ hist' = [hist EXCEPT !.before = df]
        /\ ui' = [last |-> "spread", lo |-> v[1], hi |-> v[2]]
        /\ df' = InRange(df, "spread", 1000, v[1], v[2])
        /\ pc' = "time"
        /\ UNCHANGED <<cols, now>>
        /\ UNCHANGED refreshVars

\* slider "Time to resolution (days)" and its range filter
TimeStep_MissingAsZero ==
    /\ pc = "time"
    /\ \E v \in SliderValues(TimeSlider(df), TtrPoints) :
        /\ hist' = [hist EXCEPT !.before = df]
        /\ ui' = [last |-> "time", lo |-> v[1], hi |-> v[2]]
        /\ df' = InRange(df, "time_to_resolution_days", 0, v[1], v[2])
        /\ pc' = "domain"
        /\ UNCHANGED <<cols, now>>
        /\ UNCHANGED refreshVars
TimeStep ==
    /\ pc = "time"
    /\ \E v \in SliderValues(TimeSlider(df), TtrPoints) :
        /\ hist' = [hist EXCEPT !.before = df]
        /\ ui' = [last |-> "time", lo |-> v[1], hi |-> v[2]]
        /\ df' = InRange(df, "time_to_resolution_days", BigTime, v[1], v[2])
        /\ pc' = "domain"
        /\ UNCHANGED <<cols, now>>
        /\ UNCHANGED refreshVars

\* multiselect "Domain", shown when the table has a domain column
DomainStep ==
    /\ pc = "domain"
    /\ \E selected \in SUBSET DomainOptions(df) :
        /\ hist' = [hist EXCEPT !.before = df]
        /\ IF "domain" \in cols
              THEN df' = DomainFilter(df, selected)
              ELSE selected = {} /\ df' = df
        /\ ui' = [last |-> "domain", selected |-> selected]
        /\ pc' = "search"
        /\ UNCHANGED <<cols, now>>
        /\ UNCHANGED refreshVars

\* text input "Search text (question / event title)"
SearchStep(search) ==
    /\ pc = "search"
    /\ hist' = [hist EXCEPT !.before = df]
    /\ ui' = [last |-> "search", search |-> search]
    /\ df' = SearchFilter(df, search)
    /\ pc' = "binary"
    /\ UNCHANGED <<cols, now>>
    /\ UNCHANGED refreshVars

\* checkbox "Only binary-like markets", shown when the column exists
BinaryStep(binary_only) ==
    /\ pc = "binary"
    /\ hist' = [hist EXCEPT !.before = df]
    /\ ui' = [last |-> "binary", binary_only |-> binary_only]
    /\ IF "is_binary_like" \in cols
          THEN df' = IF binary_only THEN SelectSeq(df, LAMBDA r : r.is_binary_like) ELSE df
          ELSE binary_only = FALSE /\ df' = df
    /\ pc' = "updown"
    /\ UNCHANGED <<cols, now>>
    /\ UNCHANGED refreshVars

\* checkbox "Exclude 'Up or Down' ...", then "return df"
UpDownStep(exclude_updown) ==
    /\ pc = "updown"
    /\ hist' = [hist EXCEPT !.before = df]
    /\ ui' = [last |-> "updown", exclude_updown |-> exclude_updown]
    /\ df' = IF exclude_updown THEN UpDownFilter(df) ELSE df
    /\ pc' = "done"
    /\ UNCHANGED <<cols, now>>
    /\ UNCHANGED refreshVars

NextFilters ==
    \/ \E b \in BOOLEAN : TradeableStep(b)
    \/ LiquidityStep
    \/ VolumeStep
    \/ SpreadStep
    \/ TimeStep
    \/ DomainStep
    \/ \E t \in SearchTerms : SearchStep(t)
    \/ \E b \in BOOLEAN : BinaryStep(b)
    \/ \E b \in BOOLEAN : UpDownStep(b)

SpecFilters == InitFilters /\ [][NextFilters]_vars

\* C8: the tradeable-only predicate is idempotent.  For every table of the
\* chain on which the predicate is defined (at least one status column),
\* filtering the filtered table again returns the same rows; and the table
\* the tradeable step leaves behind is the filter of the table it got and
\* is unchanged by a second application.
C8_TradeableIdempotent ==
    /\ ~TradeableRaises(cols) =>
          TradeableFilter(TradeableFilter(df, cols), cols) = TradeableFilter(df, cols)
    /\ (ui.last = "tradeable" /\ ui.tradeable /\ pc # "raised") =>
          /\ df = TradeableFilter(hist.before, cols)
          /\ TradeableFilter(df, cols) = df

\* the tradeable step removed a row and kept a row
C8_Witness ==
    /\ ui.last = "tradeable" /\ ui.tradeable /\ pc = "liquidity"
    /\ Len(df) > 0 /\ Len(df) < Len(hist.before)

\* C9: with zero domains selected the domain step removes no rows; with at
\* least one selected, exactly the rows whose domain is selected survive.
C9_EmptyDomainSelection ==
    (ui.last = "domain" /\ "domain" \in cols) =>
        IF ui.selected = {}
            THEN df = hist.before
            ELSE df = SelectSeq(hist.before, LAMBDA r : r.domain \in ui.selected)

\* the domain step ran with nothing selected on a table with rows
C9_Witness ==
    /\ ui.last = "domain" /\ "domain" \in cols
    /\ ui.selected = {} /\ Len(hist.before) > 0 /\ df = hist.before

\* C11: with "Only tradeable markets" ticked, a record is kept iff it is
\* active, not closed, order-book-enabled and accepting orders, a status
\* column the table lacks counting as permissive; in particular a table
\* with none of the four columns passes through unchanged and the step
\* does not raise.
C11_TradeablePermissive ==
    (ui.last = "tradeable" /\ ui.tradeable) =>
        /\ pc # "raised"
        /\ df = SelectSeq(hist.before, LAMBDA r :
                   /\ ("market_active" \in cols => r.market_active)
                   /\ ("market_closed" \in cols => ~r.market_closed)
                   /\ ("enable_order_book" \in cols => r.enable_order_book)
                   /\ ("accepting_orders" \in cols => r.accepting_orders))

\* C12: a record whose tag text is missing, and every record of a table
\* without the event_tags_labels column, has all nine domain flags false
\* and the domain label "Other", the domain column being part of the
\* derived table.
C12_MissingTags ==
    pc = "flagged" =>
        \A i \in Rows(df) :
            ("event_tags_labels" \notin cols \/ df[i].event_tags_labels.na) =>
                /\ FlagCols \subseteq cols
                /\ \A f \in FlagCols : df[i][f] = FALSE
                /\ "domain" \in cols
                /\ df[i].domain = "Other"

\* C13: apply_global_filters only removes rows.  At every point of the
\* chain, whatever the widgets returned, the working table is the table
\* the chain received restricted to some of its rows: every row is a row of
\* the input with all its raw and derived cells (quality_score included)
\* as they were, in the input's order, none added and none repeated.
C13_OnlyRemovesRows ==
    /\ df = SelectSeq(hist.input, LAMBDA r : \E i \in Rows(df) : df[i] = r)
    /\ Len(df) <= Len(hist.input)
    /\ \A i, j \in Rows(df) : df[i].market_id = df[j].market_id => i = j

\* the chain ran to its end, removed a row and returned a row
C13_Witness ==
    /\ pc = "done" /\ ui.last = "updown"
    /\ Len(df) > 0 /\ Len(df) < Len(hist.input)

(***************************************************************************)
(* PART 7 - data_loader.py: the normalisation at the end of load_markets   *)
(*                                                                         *)
(* A snapshot cell is the text of its CSV field, a sequence of characters  *)
(* (empty: nothing between the commas).  df holds the snapshot while       *)
(* pc = "snapshot" and the table load_markets returns when pc = "loaded";  *)
(* hist.input keeps the snapshot.                                          *)
(***************************************************************************)
DigitChars == {"0", "1", "2", "3", "4", "5", "6", "7", "8", "9"}

DigitValue(ch) ==
    CASE ch = "0" -> 0 [] ch = "1" -> 1 [] ch = "2" -> 2 [] ch = "3" -> 3
      [] ch = "4" -> 4 [] ch = "5" -> 5 [] ch = "6" -> 6 [] ch = "7" -> 7
      [] ch = "8" -> 8 [] ch = "9" -> 9

\* the number written by a run of digits
RECURSIVE DigitsValue(_)
DigitsValue(s) ==
    IF Len(s) = 0 THEN 0
    ELSE 10 * DigitsValue(SubSeq(s, 1, Len(s) - 1)) + DigitValue(s[Len(s)])

IsDigits(s) == Len(s) > 0 /\ \A k \in 1..Len(s) : s[k] \in DigitChars

\* pd.to_numeric(cell, errors="coerce"): the number, or NaN for an empty
\* field and for text that is no number
to_numeric(s) == IF IsDigits(s) THEN DigitsValue(s) ELSE NaN

\* pd.to_datetime(cell, errors="coerce", utc=True): the day the text names
\* ("+" and the day number on the model's clock), or NaT
to_datetime(s) ==
    IF Len(s) > 1 /\ s[1] = "+" /\ IsDigits(Tail(s)) THEN DigitsValue(Tail(s)) ELSE NaN

\* the columns of the two lists that the model follows, and a column that
\* is in neither list
numeric_cols == {"liquidity_num", "volume_24h"}
date_cols == {"market_endDateIso"}
UnknownCol == "category"

\* one row after pd.read_csv and the two coercion loops: a listed column
\* the snapshot has is converted cell by cell, every other cell is kept
NormaliseRow(r, c) ==
    LET typed == [ScenarioRow EXCEPT
                    !.market_id = r.market_id,
                    !.liquidity_num = IF "liquidity_num" \in c
                                         THEN to_numeric(r.liquidity_num) ELSE NaN,
                    !.volume_24h = IF "volume_24h" \in c
                                      THEN to_numeric(r.volume_24h) ELSE NaN,
                    !.market_endDateIso = IF "market_endDateIso" \in c
                                             THEN to_datetime(r.market_endDateIso)
                                             ELSE NaN]
    IN [x \in DOMAIN typed \cup {UnknownCol} |->
           IF x = UnknownCol THEN r[UnknownCol] ELSE typed[x]]

\* a cell of a listed column that the coercion turns into a missing value
Malformed(r, c) ==
    \/ "liquidity_num" \in c /\ IsNaN(to_numeric(r.liquidity_num))
    \/ "volume_24h" \in c /\ IsNaN(to_numeric(r.volume_24h))
    \/ "market_endDateIso" \in c /\ IsNaN(to_datetime(r.market_endDateIso))

\* the table after the coercion loops
Normalise_DropMalformed(d, c) ==
    LET kept == SelectSeq(d, LAMBDA r : ~Malformed(r, c)) IN
    [i \in Rows(kept) |-> NormaliseRow(kept[i], c)]
Normalise(d, c) == [i \in Rows(d) |-> NormaliseRow(d[i], c)]

\* field texts of the snapshots, each with the value it stands for
LiquidityTexts ==
    {[text |-> <<"5", "0", "0">>, value |-> 500],
     [text |-> <<"1", "0", "0", "x">>, value |-> NaN],
     [text |-> <<>>, value |-> NaN]}
VolumeTexts ==
    {[text |-> <<"2", "0", "0">>, value |-> 200],
     [text |-> <<"n", "/", "a">>, value |-> NaN]}
EndDateTexts ==
    {[text |-> <<"+", "3", "0">>, value |-> 30],
     [text |-> <<"s", "o", "o", "n">>, value |-> NaN]}
CategoryTexts == {<<"n", "e", "w", "s">>, <<"7">>}

SnapshotRows ==
    [market_id : 1..MaxRows,
     liquidity_num : {t.text : t \in LiquidityTexts},
     volume_24h : {t.text : t \in VolumeTexts},
     market_endDateIso : {t.text : t \in EndDateTexts},
     category : CategoryTexts]

\* snapshots of 1..MaxRows rows; the first row varies in every field, the
\* second in its liquidity and end date, further rows in their liquidity
SnapshotTables ==
    UNION {{t \in [1..n -> SnapshotRows] :
              \A i \in 1..n :
                  (t[i].market_id = i)
                  /\ (i > 1 => (t[i].volume_24h = <<"2", "0", "0">>
                                /\ t[i].category = <<"7">>))
                  /\ (i > 2 => t[i].market_endDateIso = <<"+", "3", "0">>)}
           : n \in 1..MaxRows}

SnapshotCols == numeric_cols \cup date_cols \cup {"market_id", UnknownCol}

InitNormalise ==
    /\ RefreshIdle
    /\ \E t \in SnapshotTables, absent \in {{}, {"liquidity_num"}, {"market_endDateIso"}} :
         /\ df = t
         /\ cols = (RawCols \cup SnapshotCols) \ absent
    /\ hist = [input |-> df]
    /\ now = 0
    /\ pc = "snapshot"
    /\ ui = NoUi

\* df = pd.read_csv(csv_path); the two loops; df = add_features(df)
NormaliseStep ==
    /\ pc = "snapshot"
    /\ LET r == add_features(Normalise(df, cols), cols, now) IN
       /\ df' = r.df
       /\ cols' = r.cols
    /\ pc' = "loaded"
    /\ UNCHANGED <<now, ui, hist>>
    /\ UNCHANGED refreshVars

NextNormalise == NormaliseStep

SpecNormalise == InitNormalise /\ [][NextNormalise]_vars

\* the value the text s stands for according to the list texts
Expected(texts, s) == (CHOOSE t \in texts : t.text = s).value

\* C14: normalisation never drops or adds rows.  The loaded table has one
\* row per snapshot row, in order; in a listed numeric or date column the
\* snapshot has, a cell holds the value its text stands for, or is missing
\* when the text stands for none, whatever the other rows hold; and the
\* cells of a column in neither list are as in the snapshot.
C14_NormaliseKeepsRows ==
    pc = "loaded" =>
        /\ Len(df) = Len(hist.input)
        /\ \A i \in Rows(hist.input) :
              LET raw == hist.input[i] IN
              /\ df[i].market_id = raw.market_id
              /\ df[i][UnknownCol] = raw[UnknownCol]
              /\ "liquidity_num" \in cols =>
                    df[i].liquidity_num = Expected(LiquidityTexts, raw.liquidity_num)
              /\ "volume_24h" \in cols =>
                    df[i].volume_24h = Expected(VolumeTexts, raw.volume_24h)
              /\ "market_endDateIso" \in cols =>
                    df[i].market_endDateIso = Expected(EndDateTexts, raw.market_endDateIso)

\* a malformed number in the first row and a good one in the second
C14_Witness ==
    /\ pc = "loaded" /\ Len(df) = 2 /\ "liquidity_num" \in cols
    /\ hist.input[1].liquidity_num = <<"1", "0", "0", "x">>
    /\ IsNaN(df[1].liquidity_num)
    /\ df[2].liquidity_num = 500

(***************************************************************************)
(* PART 8 - get_markets.py: the paginated fetch                            *)
(*                                                                         *)
(* The endpoint serves the open events ordered by id, highest first, a     *)
(* page at a time by offset.  Between two page requests the upstream list  *)
(* may gain a new event (it gets the highest id) or lose one.              *)
(***************************************************************************)
\* events per page (100 in the source, 2 in the model)
PAGE_LIMIT == 2

\* the ids in S as a list, highest first
RECURSIVE Descending(_)
Descending(S) ==
    IF S = {} THEN <<>> ELSE <<Max(S)>> \o Descending(S \ {Max(S)})

\* the markets of event e as the API returns them: one open and tradeable,
\* one that is closed in every second event, and one that is not active,
\* has no order book or does not accept orders, depending on the event
MarketsOf(e) ==
    <<[id |-> 2 * e - 1, closed |-> FALSE, active |-> TRUE,
       enableOrderBook |-> TRUE, acceptingOrders |-> TRUE],
      [id |-> 2 * e, closed |-> (e % 2 = 0), active |-> TRUE,
       enableOrderBook |-> TRUE, acceptingOrders |-> TRUE],
      [id |-> 100 + e, closed |-> FALSE, active |-> (e % 4 # 1),
       enableOrderBook |-> (e % 4 # 2), acceptingOrders |-> (e % 4 # 3)]>>

\* extract_active_markets_from_event: one row per market that is not
\* closed, is active and (ONLY_TRADEABLE) has the order book enabled and
\* accepts orders
extract_active_markets_from_event_OpenOnly(e) ==
    LET open == SelectSeq(MarketsOf(e), LAMBDA m : ~m.closed) IN
    [k \in 1..Len(open) |->
        [market_id |-> open[k].id, event_id |-> e,
         market_active |-> open[k].active, market_closed |-> open[k].closed,
         enable_order_book |-> open[k].enableOrderBook,
         accepting_orders |-> open[k].acceptingOrders]]
extract_active_markets_from_event(e) ==
    LET open == SelectSeq(MarketsOf(e),
                          LAMBDA m : /\ ~m.closed
                                     /\ m.active
                                     /\ m.enableOrderBook /\ m.acceptingOrders)
    IN [k \in 1..Len(open) |->
          [market_id |-> open[k].id, event_id |-> e,
           market_active |-> open[k].active, market_closed |-> open[k].closed,
           enable_order_book |-> open[k].enableOrderBook,
           accepting_orders |-> open[k].acceptingOrders]]

\* fetch_events_page(limit, offset) against the list the upstream has now
fetch_events_page(limit, off) ==
    IF off >= Len(events) THEN <<>>
    ELSE SubSeq(events, off + 1, Min({off + limit, Len(events)}))

\* the rows of the events of one page, in page order
RECURSIVE RowsOfPage(_)
RowsOfPage(page) ==
    IF Len(page) = 0 THEN <<>>
    ELSE extract_active_markets_from_event(Head(page)) \o RowsOfPage(Tail(page))

InitFetch ==
    /\ LoaderIdle
    /\ PipeIdle
    /\ \E S \in SUBSET (1..(MaxEvents - 1)) : events = Descending(S)
    /\ offset = 0
    /\ all_rows = <<>>
    /\ fpc = "paging"

\* one turn of the while loop of fetch_all_active_markets
FetchPage ==
    /\ fpc = "paging"
    /\ LET page == fetch_events_page(PAGE_LIMIT, offset) IN
       IF Len(page) = 0
          THEN /\ fpc' = "done"
               /\ UNCHANGED <<offset, all_rows>>
          ELSE /\ all_rows' = all_rows \o RowsOfPage(page)
               /\ IF Len(page) < PAGE_LIMIT
                     THEN fpc' = "done" /\ offset' = offset
                     ELSE fpc' = "paging" /\ offset' = offset + PAGE_LIMIT
    /\ UNCHANGED events
    /\ UNCHANGED <<loaderVars, pipeVars>>

\* upstream: a new event opens while the fetch is between two requests
UpstreamGains ==
    /\ fpc = "paging"
    /\ LET newest == IF Len(events) = 0 THEN 1 ELSE Head(events) + 1 IN
       /\ newest <= MaxEvents
       /\ events' = <<newest>> \o events
    /\ UNCHANGED <<offset, all_rows, fpc>>
    /\ UNCHANGED <<loaderVars, pipeVars>>

\* upstream: an event other than the newest closes between two requests
UpstreamLoses ==
    /\ fpc = "paging"
    /\ \E k \in 2..Len(events) :
         events' = SubSeq(events, 1, k - 1) \o SubSeq(events, k + 1, Len(events))
    /\ UNCHANGED <<offset, all_rows, fpc>>
    /\ UNCHANGED <<loaderVars, pipeVars>>

NextFetch == FetchPage \/ UpstreamGains \/ UpstreamLoses

SpecFetch == InitFetch /\ [][NextFetch]_vars

\* the while loop runs on its own: a page request returns (requests.get has
\* a timeout) and the turn of the loop that follows it is taken
SpecFetchLive == SpecFetch /\ WF_vars(FetchPage)

\* C15: within one load no two rows share a market_id, also when the
\* upstream event list gained or lost events between two page requests of
\* the fetch that produced the load.
C15_MarketIdUnique ==
    fpc = "done" =>
        \A i, j \in 1..Len(all_rows) :
            all_rows[i].market_id = all_rows[j].market_id => i = j

(***************************************************************************)
(* PART 9 - pages/3_Trading_Screener.py: compute_alpha_score               *)
(*                                                                         *)
(* Bands are in units of 1/ScoreOne, the domain multiplier in hundredths,  *)
(* alpha_raw and alpha_score in units of 1/QualityOne.  The four bands,    *)
(* the multiplier and alpha_raw are local Series of the function; the      *)
(* model keeps them in the row, and only alpha_score becomes a column.     *)
(***************************************************************************)
AlphaFields == {"liq_band", "vol_band", "spr_band", "time_band", "domain_mult",
                "alpha_raw", "alpha_score"}

\* row r with room for the values compute_alpha_score works out
WithAlphaFields(r) ==
    [x \in DOMAIN r \cup AlphaFields |-> IF x \in DOMAIN r THEN r[x] ELSE NaN]

\* band_liq(x), x a liquidity
band_liq_HalfSlope(x) ==
    IF IsNaN(x) THEN 0
    ELSE IF x <= 100 THEN 0
    ELSE IF 100 < x /\ x < 200 THEN (ScoreOne * (x - 100)) \div 200
    ELSE IF 200 <= x /\ x <= 5000 THEN ScoreOne
    ELSE IF 5000 < x /\ x < 25000 THEN ScoreOne - ((x - 5000) * ScoreOne) \div 20000
    ELSE 0
band_liq(x) ==
    IF IsNaN(x) THEN 0
    ELSE IF x <= 100 THEN 0
    ELSE IF 100 < x /\ x < 200 THEN (ScoreOne * (x - 100)) \div 100
    ELSE IF 200 <= x /\ x <= 5000 THEN ScoreOne
    ELSE IF 5000 < x /\ x < 25000 THEN ScoreOne - ((x - 5000) \div 2)
    ELSE 0

\* band_vol(x), x a 24h volume
band_vol(x) ==
    IF IsNaN(x) THEN 0
    ELSE IF x <= 10 THEN 0
    ELSE IF 10 < x /\ x < 50 THEN (ScoreOne * (x - 10)) \div 40
    ELSE IF 50 <= x /\ x <= 5000 THEN ScoreOne
    ELSE IF 5000 < x /\ x < 50000 THEN ScoreOne - (2 * (x - 5000)) \div 9
    ELSE 0

\* band_spread(x), x a spread in thousandths
band_spread(x) ==
    IF IsNaN(x) \/ x <= 0 THEN 0
    ELSE IF x < 5 THEN (ScoreOne * x) \div 5
    ELSE IF 5 <= x /\ x <= 50 THEN ScoreOne
    ELSE IF 50 < x /\ x < 150 THEN ScoreOne - (ScoreOne * (x - 50)) \div 100
    ELSE 0

\* band_time(x), x a number of days
band_time(x) ==
    IF IsNaN(x) \/ x < 0 THEN 0
    ELSE IF 0 <= x /\ x < 7 THEN (ScoreOne * x) \div 7
    ELSE IF 7 <= x /\ x <= 60 THEN ScoreOne
    ELSE IF 60 < x /\ x < 120 THEN ScoreOne - (ScoreOne * (x - 60)) \div 60
    ELSE 0

\* the title contains "Up or Down", in exactly this case
HasUpOrDown(title) == IsInfix(<<"Up", "or", "Down">>, title)

\* dom_mult(row), in hundredths
dom_mult_PenaltyCryptoOnly(r, c) ==
    LET d == Cell(r, c, "domain", "Other")
        base == IF d \in {"Elections", "Global Elections", "Politics"} THEN 100
                ELSE IF d \in {"Tech", "Finance", "Crypto"} THEN 90
                ELSE IF d \in {"Culture"} THEN 70
                ELSE IF d \in {"Sports"} THEN 40
                ELSE 80
    IN IF HasUpOrDown(Cell(r, c, "event_title", <<>>)) /\ d \in {"Crypto", "Crypto Prices"}
          THEN (base * 5) \div 10 ELSE base
dom_mult_CryptoPricesAsCrypto(r, c) ==
    LET d == Cell(r, c, "domain", "Other")
        base == IF d \in {"Elections", "Global Elections", "Politics"} THEN 100
                ELSE IF d \in {"Tech", "Finance", "Crypto", "Crypto Prices"} THEN 90
                ELSE IF d \in {"Culture"} THEN 70
                ELSE IF d \in {"Sports"} THEN 40
                ELSE 80
    IN IF HasUpOrDown(Cell(r, c, "event_title", <<>>)) THEN (base * 5) \div 10 ELSE base
dom_mult(r, c) ==
    LET d == Cell(r, c, "domain", "Other")
        base == IF d \in {"Elections", "Global Elections", "Politics"} THEN 100
                ELSE IF d \in {"Tech", "Finance", "Crypto"} THEN 90
                ELSE IF d \in {"Culture"} THEN 70
                ELSE IF d \in {"Sports"} THEN 40
                ELSE 80
    IN IF HasUpOrDown(Cell(r, c, "event_title", <<>>)) THEN (base * 5) \div 10 ELSE base

\* the product of two values in units of 1/QualityOne, each cut to three
\* decimals so that the product fits the model's integers
MulScore(a, q) == (a \div 1000) * (q \div 1000)

\* compute_alpha_score for one row
AlphaRow_Unscaled(r, c) ==
    LET liq == band_liq(Cell(r, c, "liquidity_num", 0))
        vol == band_vol(Cell(r, c, "volume_24h", 0))
        spr == band_spread(Cell(r, c, "spread", 0))
        tim == band_time(Cell(r, c, "time_to_resolution_days", 0))
        mult == dom_mult(r, c)
        raw == 30 * liq + 25 * vol + 20 * spr + 25 * tim
    IN [r EXCEPT !.liq_band = liq, !.vol_band = vol, !.spr_band = spr,
                 !.time_band = tim, !.domain_mult = mult, !.alpha_raw = raw,
                 !.alpha_score = (raw * mult) \div 100]
AlphaRow(r, c) ==
    LET liq == band_liq(Cell(r, c, "liquidity_num", 0))
        vol == band_vol(Cell(r, c, "volume_24h", 0))
        spr == band_spread(Cell(r, c, "spread", 0))
        tim == band_time(Cell(r, c, "time_to_resolution_days", 0))
        mult == dom_mult(r, c)
        raw == 30 * liq + 25 * vol + 20 * spr + 25 * tim
        quality == Cell(r, c, "quality_score", QualityOne)
    IN [r EXCEPT !.liq_band = liq, !.vol_band = vol, !.spr_band = spr,
                 !.time_band = tim, !.domain_mult = mult, !.alpha_raw = raw,
                 !.alpha_score = IF IsNaN(quality) THEN NaN
                                 ELSE MulScore((raw * mult) \div 100, quality)]

compute_alpha_score(d, c) == [i \in Rows(d) |-> AlphaRow(d[i], c)]

\* inputs of the alpha score
AlphaLiquidities == {NaN, -5, 0, 50, 100, 101, 150, 199, 200, 1000, 5000, 5002,
                     15000, 24998, 25000, 30000}
AlphaDomains == {"Sports", "Elections", "Global Elections", "Politics", "Crypto Prices",
                 "Crypto", "Tech", "Finance", "Culture", "Other"}
AlphaTitles == {<<"Will", "X", "win">>, <<"Bitcoin", "Up", "or", "Down">>,
                <<"bitcoin", "up", "or", "down">>}
AlphaQualities == {0, 615000, QualityOne}

\* the derived columns a table has when it reaches the screener
DerivedCols ==
    RawCols \cup FlagCols \cup {"spread", "mid_price", "time_to_resolution_days",
                                "is_binary_like", "domain", "p_true", "implied_prob",
                                "edge", "quality_score"}

\* tables of 1..MaxRows rows; the first row varies, the others are fixed
AlphaTables ==
    UNION {{[i \in 1..n |->
               WithAlphaFields(
                 IF i = 1
                   THEN [ScenarioRow EXCEPT !.liquidity_num = liq, !.domain = dom,
                                            !.event_title = title, !.spread = 50,
                                            !.time_to_resolution_days = 30,
                                            !.quality_score = q]
                   ELSE [ScenarioRow EXCEPT !.market_id = i, !.domain = "Sports",
                                            !.event_title = <<"Rates", "Up", "or", "Down">>,
                                            !.spread = 50,
                                            !.time_to_resolution_days = 30,
                                            !.quality_score = 615000])]
            : liq \in AlphaLiquidities, dom \in AlphaDomains,
              title \in AlphaTitles, q \in AlphaQualities}
           : n \in 1..MaxRows}

InitAlpha ==
    /\ RefreshIdle
    /\ \E t \in AlphaTables, absent \in {{}, {"domain"}, {"liquidity_num"}} :
         /\ df = t
         /\ cols = DerivedCols \ absent
    /\ hist = [input |-> df]
    /\ now = 0
    /\ pc = "screened"
    /\ ui = NoUi

\* screener_df = compute_alpha_score(screener_df)
ComputeAlphaScore ==
    /\ pc = "screened"
    /\ df' = compute_alpha_score(df, cols)
    /\ cols' = cols \cup {"alpha_score"}
    /\ pc' = "alpha"
    /\ UNCHANGED <<now, ui, hist>>
    /\ UNCHANGED refreshVars

NextAlpha == ComputeAlphaScore

SpecAlpha == InitAlpha /\ [][NextAlpha]_vars

\* C16: liq_band is 0 up to 100, rises linearly to 1 at 200, stays 1 up to
\* 5000, falls linearly to 0 at 25000, is 0 beyond and 0 for a missing
\* liquidity; liq_band(100) = 0, liq_band(150) = 0.5, liq_band(200) = 1,
\* liq_band(5000) = 1, liq_band(25000) = 0.
C16_LiqBand ==
    (pc = "alpha" /\ "liquidity_num" \in cols) =>
        \A i \in Rows(df) :
            LET x == df[i].liquidity_num
                b == df[i].liq_band
            IN /\ IsNaN(x) => b = 0
               /\ (~IsNaN(x) /\ x <= 100) => b = 0
               /\ (100 < x /\ x < 200) => 100 * b = ScoreOne * (x - 100)
               /\ (200 <= x /\ x <= 5000) => b = ScoreOne
               /\ (5000 < x /\ x < 25000) => 20000 * (ScoreOne - b) = ScoreOne * (x - 5000)
               /\ x >= 25000 => b = 0
               /\ x = 150 => 2 * b = ScoreOne

\* the band at the midpoint of the rising edge
C16_Witness ==
    /\ pc = "alpha" /\ "liquidity_num" \in cols
    /\ df[1].liquidity_num = 150 /\ df[1].liq_band = 5000

\* the multiplier of domain label d for a title without "Up or Down"
BaseMultiplier(d) ==
    CASE d \in {"Elections", "Global Elections", "Politics"} -> 100
      [] d \in {"Tech", "Finance", "Crypto"} -> 90
      [] d = "Culture" -> 70
      [] d = "Sports" -> 40
      [] OTHER -> 80

\* C17: for every domain label, a record whose event_title contains
\* "Up or Down" gets exactly half the multiplier the same record gets
\* without it, and alpha_score is alpha_raw times that halved multiplier
\* times quality_score.
C17_UpOrDownHalves ==
    pc = "alpha" =>
        \A i \in Rows(df) :
            LET full == dom_mult([df[i] EXCEPT !.event_title = <<"Will", "X", "win">>], cols)
            IN /\ full = BaseMultiplier(Cell(df[i], cols, "domain", "Other"))
               /\ HasUpOrDown(df[i].event_title) =>
                     /\ 2 * df[i].domain_mult = full
                     /\ df[i].alpha_score =
                          MulScore((df[i].alpha_raw * full) \div 200, df[i].quality_score)
               /\ ~HasUpOrDown(df[i].event_title) => df[i].domain_mult = full

\* a Politics record with "Up or Down" in its title has multiplier 0.5
C17_Witness ==
    /\ pc = "alpha" /\ "domain" \in cols
    /\ df[1].domain = "Politics" /\ HasUpOrDown(df[1].event_title)
    /\ df[1].domain_mult = 50 /\ df[1].alpha_score > 0

(***************************************************************************)
(* PART 10 - features.py: is_binary_like over outcome texts                *)
(***************************************************************************)
\* characters and labels the outcome texts are made of
OutcomeAlphabet == {"[", "]", ",", "|", " ", "\"", "Yes"}

RECURSIVE TextsOfLength(_)
TextsOfLength(n) ==
    IF n = 0 THEN {<<>>}
    ELSE {Append(t, a) : t \in TextsOfLength(n - 1), a \in OutcomeAlphabet}

ThreeOutcomes == <<"[", "\"", "A", "\"", ",", "\"", "B", "\"", ",", "\"", "C", "\"", "]">>
PipedYesNo == <<"Yes", "|", "No">>

\* every text of up to MaxText characters, and the three texts of the
\* specification's scenario
OutcomeTexts ==
    UNION {TextsOfLength(n) : n \in 0..MaxText} \cup {YesNo, ThreeOutcomes, PipedYesNo}

InitBinary ==
    /\ RefreshIdle
    /\ \E text \in OutcomeTexts, present \in BOOLEAN :
         /\ present \/ text = <<>>
         /\ df = <<[ScenarioRow EXCEPT !.outcomes_raw = text]>>
         /\ cols = IF present THEN RawCols ELSE RawCols \ {"outcomes_raw"}
    /\ hist = [input |-> df]
    /\ now = 0
    /\ pc = "outcomes"
    /\ ui = NoUi

\* df = add_features(df), which sets is_binary_like
FlagBinary ==
    /\ pc = "outcomes"
    /\ LET r == add_features(df, cols, now) IN
       /\ df' = r.df
       /\ cols' = r.cols
    /\ pc' = "binary_flagged"
    /\ UNCHANGED <<now, ui, hist>>
    /\ UNCHANGED refreshVars

NextBinary == FlagBinary

SpecBinary == InitBinary /\ [][NextBinary]_vars

\* the text without the blanks at its two ends, as a pair of positions
FirstInk(s) == IF \A k \in 1..Len(s) : s[k] = " " THEN Len(s) + 1
               ELSE Min({k \in 1..Len(s) : s[k] # " "})
LastInk(s) == IF \A k \in 1..Len(s) : s[k] = " " THEN 0
              ELSE Max({k \in 1..Len(s) : s[k] # " "})

\* number of non-empty labels of the list written in positions lo..hi of s
\* with separator sep; quoted tells whether quotes around a label are
\* dropped (the JSON-array-like reading)
LabelCount(s, lo, hi, sep, quoted) ==
    LET cuts == {lo - 1, hi + 1} \cup {k \in lo..hi : s[k] = sep}
        \* a label lies between two neighbouring cuts
        spans == {p \in cuts \X cuts :
                    p[1] < p[2] /\ ~\E c \in cuts : p[1] < c /\ c < p[2]}
        ink(p) == {k \in (p[1] + 1)..(p[2] - 1) : s[k] # " "}
        nonEmpty(p) ==
            /\ ink(p) # {}
            /\ quoted => \E k \in Min(ink(p))..Max(ink(p)) : s[k] \notin {"\"", "'"}
    IN Cardinality({p \in spans : nonEmpty(p)})

\* number of non-empty outcome labels of a text: a bracketed text is read
\* as a JSON-array-like list, else a text with a comma as a
\* comma-separated list, else a text with a bar as a pipe-separated list,
\* else as one label
OutcomeLabels(raw) ==
    LET lo == FirstInk(raw)
        hi == LastInk(raw)
    IN IF lo > hi THEN 0
       ELSE IF raw[lo] = "[" /\ raw[hi] = "]"
               THEN IF lo = hi THEN 0 ELSE LabelCount(raw, lo + 1, hi - 1, ",", TRUE)
       ELSE IF \E k \in lo..hi : raw[k] = "," THEN LabelCount(raw, lo, hi, ",", FALSE)
       ELSE IF \E k \in lo..hi : raw[k] = "|" THEN LabelCount(raw, lo, hi, "|", FALSE)
       ELSE 1

\* C18: is_binary_like is true iff outcomes_raw, read as a JSON-array-like,
\* comma-separated or pipe-separated list of outcome labels, has exactly
\* two non-empty labels; it is false when the cell is missing or the table
\* has no outcomes_raw column.  ["Yes","No"] and Yes|No give true,
\* ["A","B","C"] gives false.
C18_BinaryLike ==
    pc = "binary_flagged" =>
        /\ "is_binary_like" \in cols
        /\ \A i \in Rows(df) :
              LET raw == hist.input[i].outcomes_raw IN
              /\ df[i].is_binary_like =
                    ("outcomes_raw" \in cols /\ raw # <<>> /\ OutcomeLabels(raw) = 2)
              /\ raw \in {YesNo, PipedYesNo} => df[i].is_binary_like
              /\ raw = ThreeOutcomes => ~df[i].is_binary_like

\* a bracketed list of two quoted labels was flagged binary
C18_Witness ==
    /\ pc = "binary_flagged"
    /\ hist.input[1].outcomes_raw = YesNo
    /\ df[1].is_binary_like

\* the first row of the featured table is the scenario row (bid 0.40, ask
\* 0.45, liquidity 500, 24h volume 200, tagged Politics) 30 days before
\* its resolution
ScenarioScored ==
    /\ pc = "featured" /\ Len(df) > 0
    /\ df[1].bestBid = 400 /\ df[1].bestAsk = 450
    /\ df[1].liquidity_num = 500 /\ df[1].volume_24h = 200
    /\ df[1].time_to_resolution_days = 30
    /\ df[1].domain = "Politics"

\* the greatest liquidity of the table, missing taken as 0
TableMaxLiquidity == Max({fillna(df[i].liquidity_num, 0) : i \in Rows(df)})

\* C19 as stated: the scenario row's quality_score lies between 0.6 and
\* 0.8 for the possible values of the table's maximum liquidity.
C19_ScenarioRange ==
    ScenarioScored =>
        /\ df[1].quality_score >= 600000
        /\ df[1].quality_score <= 800000

\* C19 amended: the scenario row's quality_score is 0.615 when the row holds
\* the table's maximum liquidity and lower for every larger maximum (0.52
\* for a maximum of 5000); it lies above 0.265 and never above 0.615.
C19_ScenarioAtMost ==
    ScenarioScored =>
        /\ df[1].quality_score > 265000
        /\ df[1].quality_score <= 615000
        /\ TableMaxLiquidity = 500 => df[1].quality_score = 615000
        /\ TableMaxLiquidity = 5000 => df[1].quality_score = 520465

\* the scenario row scored in a table whose maximum liquidity is 5000
C19_Witness ==
    /\ ScenarioScored
    /\ TableMaxLiquidity = 5000
    /\ df[1].quality_score < 600000

\* the liquidity component of row i of the scored table, in units of
\* 1/QualityOne: the score less its volume, spread and time components
LiquidityComponent(i) ==
    df[i].quality_score
        - 30 * vol_score(fillna(Cell(df[i], cols, "volume_24h", 0), 0))
        - 20 * spread_score(df[i].spread)
        - 15 * time_score(df[i].time_to_resolution_days)

\* the liquidity of row i as the score sees it
FilledLiquidity(i) == fillna(Cell(df[i], cols, "liquidity_num", 0), 0)

\* C20: the liquidity component is normalised against the maximum
\* liquidity of the whole table: a row holding a maximum > 0 gets
\* liquidity_score 1.0, a row with liquidity 0 or missing gets 0, the
\* component is non-decreasing in liquidity, and when every liquidity is 0
\* or missing every row's liquidity_score is 0.
C20_TableRelativeLiquidity ==
    (pc = "scored" /\ Len(df) > 0) =>
        LET m == Max({FilledLiquidity(i) : i \in Rows(df)}) IN
        /\ \A i \in Rows(df) :
              /\ (m > 0 /\ FilledLiquidity(i) = m) => LiquidityComponent(i) = 35 * ScoreOne
              /\ FilledLiquidity(i) = 0 => LiquidityComponent(i) = 0
              /\ m <= 0 => LiquidityComponent(i) = 0
              /\ LiquidityComponent(i) >= 0 /\ LiquidityComponent(i) <= 35 * ScoreOne
        /\ \A i, j \in Rows(df) :
              FilledLiquidity(i) <= FilledLiquidity(j) =>
                  LiquidityComponent(i) <= LiquidityComponent(j)

\* a table with a row at the maximum 500 and a row with less: the first
\* scores 1.0 on liquidity, the second less
C20_Witness ==
    /\ pc = "scored" /\ Len(df) = 2
    /\ df[1].liquidity_num = 100 /\ df[2].liquidity_num = 500
    /\ LiquidityComponent(2) = 35 * ScoreOne
    /\ LiquidityComponent(1) > 0 /\ LiquidityComponent(1) < 35 * ScoreOne

(***************************************************************************)
(* PART 11 - pages/3_Trading_Screener.py: main().  The page takes the      *)
(* table the global filters return, applies its own toggable filters,      *)
(* computes screener_score and alpha_score and sorts the rows.  The        *)
(* global filters only remove rows, so the table entering their last step  *)
(* is any selection of the rows of a loaded table.                         *)
(***************************************************************************)
\* row r with room for the screener's score
WithScreenerFields(r) ==
    [x \in DOMAIN r \cup {"screener_score"} |-> IF x \in DOMAIN r THEN r[x] ELSE NaN]

\* the rows of d with index in S, in the order of d
RECURSIVE Restrict(_, _, _)
Restrict(d, S, k) ==
    IF k > Len(d) THEN <<>>
    ELSE IF k \in S THEN <<d[k]>> \o Restrict(d, S, k + 1)
    ELSE Restrict(d, S, k + 1)

\* the six checkboxes of the screener, all ticked by default
ScreenerFlags ==
    [exclude_sports_crypto : BOOLEAN, filter_active : BOOLEAN, filter_liq : BOOLEAN,
     filter_spread : BOOLEAN, filter_vol : BOOLEAN, filter_time : BOOLEAN]

\* domain_col.str.contains(r"\bSports\b") or (r"\bCrypto\b"), case=False:
\* of the classifier's labels the words match "Sports", "Crypto" and
\* "Crypto Prices"; a table without the column has "" everywhere
SportsOrCrypto(r, c) ==
    Cell(r, c, "domain", "") \in {"Sports", "Crypto", "Crypto Prices"}

\* the mask of "Market must be active"; a missing column is added with its
\* default before the comparison
ActiveRow(r, c) ==
    /\ Cell(r, c, "market_active", TRUE) = TRUE
    /\ Cell(r, c, "market_closed", FALSE) = FALSE
    /\ Cell(r, c, "enable_order_book", TRUE) = TRUE
    /\ Cell(r, c, "accepting_orders", TRUE) = TRUE

\* the toggable filters in the order of the page
ScreenerFilters(d, c, f) ==
    LET d0 == IF f.exclude_sports_crypto
                 THEN SelectSeq(d, LAMBDA r : ~SportsOrCrypto(r, c)) ELSE d
        d1 == IF f.filter_active THEN SelectSeq(d0, LAMBDA r : ActiveRow(r, c)) ELSE d0
        d2 == IF f.filter_liq
                 THEN SelectSeq(d1, LAMBDA r : LET l == fillna(r.liquidity_num, 0)
                                               IN l >= 200 /\ l <= 5000)
                 ELSE d1
        d3 == IF f.filter_spread
                 THEN SelectSeq(d2, LAMBDA r : Max({fillna(r.spread, 1000), 0}) <= 120)
                 ELSE d2
        d4 == IF f.filter_vol
                 THEN SelectSeq(d3, LAMBDA r : fillna(r.volume_24h, 0) >= 20) ELSE d3
    IN IF f.filter_time
          THEN SelectSeq(d4, LAMBDA r : /\ ~IsNaN(r.time_to_resolution_days)
                                        /\ r.time_to_resolution_days >= 2
                                        /\ r.time_to_resolution_days <= 120)
          ELSE d4

\* max_liq = float(liq.max()) if float(liq.max()) > 0 else 1.0
screener_max_liq_Fixed(d, c) == 5000
screener_max_liq(d, c) ==
    LET m == Max({fillna(Cell(d[i], c, "liquidity_num", 0), 0) : i \in Rows(d)})
    IN IF m > 0 THEN m ELSE 1

\* liq_score = np.log1p(liq) / np.log1p(max_liq)
screener_liq_score(l, m) == (log1p(l) * ScoreOne) \div log1p(m)

\* vol_score = np.minimum(vol / 1000.0, 1.0)
screener_vol_score(v) == Min({10 * v, ScoreOne})

\* spread_score = 1.0 - np.minimum(spr / 0.05, 1.0), spr filled with 1.0 and
\* clipped at 0
screener_spread_score(sp) ==
    LET spr == Max({fillna(sp, 1000), 0}) IN
    ScoreOne - Min({200 * spr, ScoreOne})

\* time_score = 1.0 - min(|ttr_clamped - 45| / 45, 1.0), ttr filled with 90
\* and clamped to [3, 90]
screener_time_score(t) ==
    LET ttr_clamped == Max({3, Min({90, fillna(t, 90)})})
        dist == IF ttr_clamped >= 45 THEN ttr_clamped - 45 ELSE 45 - ttr_clamped
    IN ScoreOne - Min({(ScoreOne * dist) \div 45, ScoreOne})

\* the column screener_score of a table with at least one row
screener_score(d, c) ==
    LET m == screener_max_liq(d, c) IN
    [i \in Rows(d) |->
        35 * screener_liq_score(fillna(Cell(d[i], c, "liquidity_num", 0), 0), m)
        + 30 * screener_vol_score(fillna(Cell(d[i], c, "volume_24h", 0), 0))
        + 20 * screener_spread_score(Cell(d[i], c, "spread", 1000))
        + 15 * screener_time_score(Cell(d[i], c, "time_to_resolution_days", 90))]

\* the options of "Sort by" in the order of the selectbox, whose default
\* is the first
sort_options_SpreadDesc ==
    <<[col |-> "screener_score", descending |-> TRUE],
      [col |-> "quality_score", descending |-> TRUE],
      [col |-> "liquidity_num", descending |-> TRUE],
      [col |-> "volume_24h", descending |-> TRUE],
      [col |-> "spread", descending |-> TRUE],
      [col |-> "time_to_resolution_days", descending |-> FALSE]>>
sort_options ==
    <<[col |-> "screener_score", descending |-> TRUE],
      [col |-> "quality_score", descending |-> TRUE],
      [col |-> "liquidity_num", descending |-> TRUE],
      [col |-> "volume_24h", descending |-> TRUE],
      [col |-> "spread", descending |-> FALSE],
      [col |-> "time_to_resolution_days", descending |-> FALSE]>>

\* the orders DataFrame.sort_values(col, ascending) can give the rows of d:
\* missing keys come last, equal keys in any order
sort_values(d, col, ascending) ==
    {s \in {[i \in Rows(d) |-> d[p[i]]] :
              p \in {q \in [Rows(d) -> Rows(d)] :
                       \A i, j \in Rows(d) : q[i] = q[j] => i = j}} :
        \A i, j \in Rows(s) :
            i < j =>
                \/ IsNaN(s[j][col])
                \/ /\ ~IsNaN(s[i][col])
                   /\ IF ascending THEN s[i][col] <= s[j][col]
                                   ELSE s[i][col] >= s[j][col]}

\* the table entering the last global filter
InitScreener ==
    /\ RefreshIdle
    /\ \E t \in RawTables, absent \in {{}, StatusCols} :
         \E keep \in SUBSET Rows(t) :
            /\ \A i \in Rows(t), a \in absent : t[i][a] = BaseRow[a]
            /\ df = Restrict([i \in Rows(t) |->
                                WithScreenerFields(WithAlphaFields(
                                    add_features(t, RawCols \ absent, 0).df[i]))],
                             keep, 1)
            /\ cols = add_features(t, RawCols \ absent, 0).cols
    /\ hist = [input |-> df, before |-> df]
    /\ now = 0
    /\ pc = "updown"
    /\ ui = [last |-> "none"]

\* "if df.empty: return", the six checkboxes and their filters, then
\* "if screener_df.empty: return"
ScreenerFilterStep ==
    /\ pc = "done"
    /\ hist' = [hist EXCEPT !.before = df]
    /\ \E f \in ScreenerFlags :
        /\ ui' = [last |-> "screener", exclude_updown |-> ui.exclude_updown,
                  flags |-> f]
        /\ IF Len(df) = 0
              THEN /\ df' = df
                   /\ cols' = cols
                   /\ pc' = "returned"
              ELSE /\ df' = ScreenerFilters(df, cols, f)
                   /\ cols' = IF f.filter_active THEN cols \cup StatusCols ELSE cols
                   /\ pc' = IF Len(df') = 0 THEN "returned" ELSE "filtered"
    /\ UNCHANGED now
    /\ UNCHANGED refreshVars

\* screener_df["screener_score"] = screener_score
ScreenerScoreStep ==
    /\ pc = "filtered"
    /\ df' = [i \in Rows(df) |->
                [df[i] EXCEPT !.screener_score = screener_score(df, cols)[i]]]
    /\ cols' = cols \cup {"screener_score"}
    /\ pc' = "screened"
    /\ UNCHANGED <<now, ui, hist>>
    /\ UNCHANGED refreshVars

\* selectbox "Sort by" and screener_df.sort_values(sort_col, ascending)
SortStep ==
    /\ pc = "alpha"
    /\ \E k \in 1..Len(sort_options) :
        /\ ui' = [last |-> "sort", exclude_updown |-> ui.exclude_updown,
                  flags |-> ui.flags, sort_col |-> sort_options[k].col,
                  descending |-> sort_options[k].descending]
        /\ df' \in sort_values(df, sort_options[k].col, ~sort_options[k].descending)
    /\ hist' = [hist EXCEPT !.before = df]
    /\ pc' = "sorted"
    /\ UNCHANGED <<cols, now>>
    /\ UNCHANGED refreshVars

NextScreener ==
    \/ \E b \in BOOLEAN : UpDownStep(b)
    \/ ScreenerFilterStep
    \/ ScreenerScoreStep
    \/ ComputeAlphaScore
    \/ SortStep

SpecScreener == InitScreener /\ [][NextScreener]_vars

\* the liquidity component of row i of the screener's table, in units of
\* 1/QualityOne: screener_score less its volume, spread and time components
ScreenerLiquidityComponent(i) ==
    df[i].screener_score
        - 30 * screener_vol_score(fillna(df[i].volume_24h, 0))
        - 20 * screener_spread_score(df[i].spread)
        - 15 * screener_time_score(df[i].time_to_resolution_days)

\* C21: the liquidity component of screener_score is normalised against the
\* maximum liquidity of the rows that survived the global and the screener
\* filters: a surviving row holding a maximum > 0 gets liq_score 1.0, and
\* when the maximum is <= 0 it is replaced by 1 and every liq_score is 0.
C21_SurvivorRelativeLiquidity ==
    pc = "screened" =>
        LET m == Max({FilledLiquidity(i) : i \in Rows(df)}) IN
        \A i \in Rows(df) :
            /\ (m > 0 /\ FilledLiquidity(i) = m) =>
                   ScreenerLiquidityComponent(i) = 35 * ScoreOne
            /\ m <= 0 => ScreenerLiquidityComponent(i) = 0
            /\ ScreenerLiquidityComponent(i) >= 0
            /\ ScreenerLiquidityComponent(i) <= 35 * ScoreOne

\* the screener's filters removed the row with the table's greatest
\* liquidity, and the survivor with the greatest remaining liquidity scores
\* 1.0 on liquidity
C21_Witness ==
    /\ pc = "screened"
    /\ Len(hist.before) = 2 /\ Len(df) = 1
    /\ \E j \in Rows(hist.before) :
          fillna(hist.before[j].liquidity_num, 0) > FilledLiquidity(1)
    /\ FilledLiquidity(1) > 0
    /\ ScreenerLiquidityComponent(1) = 35 * ScoreOne

\* C22: the sort selector is applied after all filters and scores: its
\* output is a permutation of the screener's rows, ordered by the chosen key
\* in the named direction (screener_score, quality_score, liquidity_num and
\* volume_24h descending, spread and time_to_resolution_days ascending, rows
\* without a key last); the first option, screener score descending, is the
\* default; no row is added or lost.
C22_SortIsOrderedPermutation ==
    /\ sort_options[1] = [col |-> "screener_score", descending |-> TRUE]
    /\ pc = "sorted" =>
        /\ ui.descending = (ui.sort_col \in {"screener_score", "quality_score",
                                             "liquidity_num", "volume_24h"})
        /\ ui.sort_col \in {"screener_score", "quality_score", "liquidity_num",
                            "volume_24h", "spread", "time_to_resolution_days"}
        /\ Len(df) = Len(hist.before)
        /\ \A r \in {hist.before[i] : i \in Rows(hist.before)} :
              Cardinality({i \in Rows(df) : df[i] = r})
                  = Cardinality({i \in Rows(hist.before) : hist.before[i] = r})
        /\ \A i \in Rows(df) : ~IsNaN(df[i].screener_score) /\ ~IsNaN(df[i].alpha_score)
        /\ \A i, j \in Rows(df) :
              (i < j /\ ~IsNaN(df[i][ui.sort_col]) /\ ~IsNaN(df[j][ui.sort_col])) =>
                  IF ui.descending THEN df[i][ui.sort_col] >= df[j][ui.sort_col]
                                   ELSE df[i][ui.sort_col] <= df[j][ui.sort_col]

\* two rows that sorting by spread, ascending, put in the other order
C22_Witness ==
    /\ pc = "sorted" /\ ui.sort_col = "spread" /\ ~ui.descending
    /\ Len(df) = 2
    /\ df[1] = hist.before[2] /\ df[2] = hist.before[1]
    /\ df[1].spread < df[2].spread

\* C23: for a title without "Up or Down" the domain multiplier is 1.0 for
\* Elections and Politics, 0.9 for Tech, Finance and Crypto, 0.7 for
\* Culture, 0.4 for Sports and 0.8 for "Crypto Prices", for "Other" and for
\* a table without a domain column.
C23_BaseDomainMultiplier ==
    pc = "alpha" =>
        \A i \in Rows(df) :
            ~HasUpOrDown(df[i].event_title) =>
                /\ "domain" \notin cols => df[i].domain_mult = 80
                /\ "domain" \in cols =>
                    /\ df[i].domain \in {"Elections", "Politics"} => df[i].domain_mult = 100
                    /\ df[i].domain \in {"Tech", "Finance", "Crypto"} => df[i].domain_mult = 90
                    /\ df[i].domain = "Culture" => df[i].domain_mult = 70
                    /\ df[i].domain = "Sports" => df[i].domain_mult = 40
                    /\ df[i].domain \in {"Crypto Prices", "Other"} => df[i].domain_mult = 80

\* a "Crypto Prices" record with a plain title has multiplier 0.8
C23_Witness ==
    /\ pc = "alpha" /\ "domain" \in cols
    /\ df[1].domain = "Crypto Prices" /\ ~HasUpOrDown(df[1].event_title)
    /\ df[1].domain_mult = 80

\* C24: in the global time-to-resolution filter a record with a present
\* value d survives iff lower <= d <= upper, both bounds inclusive, and a
\* record without a value is removed whatever the range, because it is
\* compared as 1e9 and the slider's upper bound stays below 1e9.
C24_TimeRangeInclusive ==
    (pc = "domain" /\ ui.last = "time") =>
        /\ ui.hi < 1000000000
        /\ TimeSlider(hist.before).max < 1000000000
        /\ df = SelectSeq(hist.before,
                          LAMBDA r : /\ ~IsNaN(r.time_to_resolution_days)
                                     /\ ui.lo <= r.time_to_resolution_days
                                     /\ r.time_to_resolution_days <= ui.hi)

\* a record whose time to resolution equals both ends of the range
\* survives and a record without one is removed
C24_Witness ==
    /\ pc = "domain" /\ ui.last = "time"
    /\ Len(hist.before) = 2 /\ Len(df) = 1
    /\ \E j \in Rows(hist.before) : IsNaN(hist.before[j].time_to_resolution_days)
    /\ df[1].time_to_resolution_days = ui.lo /\ ui.lo = ui.hi

\* C28: for every non-empty table reaching the time-to-resolution step the
\* default selection handed to the slider is valid:
\* slider_min <= default_lower <= default_upper <= slider_max.
C28_TimeDefaultValid ==
    (pc = "time" /\ Len(df) > 0) =>
        LET a == TimeSliderArgs(df) IN
        /\ a.min_value <= a.default_ttr_min
        /\ a.default_ttr_min <= a.default_ttr_max
        /\ a.default_ttr_max <= a.max_value

C30_ExclusionCoversPenalty ==
    (pc = "alpha" /\ ui.last = "screener") =>
        \A i \in Rows(df) :
            LET full == BaseMultiplier(Cell(df[i], cols, "domain", "Other"))
                penalised == df[i].domain_mult # full
            IN /\ ui.exclude_updown => ~penalised
               /\ penalised <=> HasUpOrDown(df[i].event_title)
               /\ penalised => 2 * df[i].domain_mult = full

\* the filter is enabled, the loaded table held a title with "Up or Down"
\* and another record went on to compute_alpha_score
C30_Witness ==
    /\ pc = "alpha" /\ ui.last = "screener" /\ ui.exclude_updown
    /\ \E j \in Rows(hist.input) : HasUpOrDown(hist.input[j].event_title)
    /\ Len(df) > 0

\* C26: once a complete snapshot is on disk, at CSV_PATH or at the .backup
\* path, every Refresh press, fetch outcome and load_markets call leaves a
\* complete snapshot at one of the two paths.
C26_SnapshotSurvives ==
    [][(csv.complete \/ backup.complete) => (csv'.complete \/ backup'.complete)]_vars

\* C27: each press of Refresh causes at most one fetch attempt; when
\* load_markets has returned, force_refresh is False and the table it
\* returned is the cached one, which later calls return without fetching.
C27_OneFetchPerPress ==
    /\ fetches <= 1
    /\ returned # NotCalled =>
          /\ force_refresh = FALSE
          /\ cache = returned

\* Refresh was pressed on a good snapshot, the one fetch it caused wrote a
\* new snapshot and load_markets returned its table
C27_Witness ==
    /\ pre.complete /\ fetches = 1 /\ lastOutcome = "ok_rows"
    /\ returned # NotCalled /\ returned.ver = fetchedVer
    /\ cache = returned /\ force_refresh = FALSE

\* C29: fetch_all_active_markets terminates for every finite upstream event
\* list: it requests the offsets 0, PAGE_LIMIT, 2 * PAGE_LIMIT, ... in
\* order, stops after the first page that is empty or has fewer than
\* PAGE_LIMIT events, returns the rows extracted from every page it
\* fetched, and every returned row is a market that is not closed, is
\* active, has the order book enabled and is accepting orders.
C29_FetchTerminates ==
    /\ <>(fpc = "done")
    /\ [](\A k \in 1..Len(all_rows) :
              /\ ~all_rows[k].market_closed
              /\ all_rows[k].market_active
              /\ all_rows[k].enable_order_book
              /\ all_rows[k].accepting_orders)
    /\ [](offset % PAGE_LIMIT = 0)
    /\ [][(fpc = "paging" /\ events' = events) =>
            LET first == offset + 1
                last == Min({offset + PAGE_LIMIT, Len(events)})
                page == IF first > Len(events) THEN <<>> ELSE SubSeq(events, first, last)
            IN /\ all_rows' = all_rows \o RowsOfPage(page)
               /\ (fpc' = "done") <=> (Len(page) < PAGE_LIMIT)
               /\ fpc' = "paging" => offset' = offset + PAGE_LIMIT]_vars
    /\ [][fpc = "done" => fpc' = "done" /\ all_rows' = all_rows]_vars

\* the fetch ended on its third page, a short one, with rows collected
C29_Witness ==
    /\ fpc = "done" /\ offset = 2 * PAGE_LIMIT
    /\ Len(events) > offset /\ Len(events) < offset + PAGE_LIMIT
    /\ Len(all_rows) > 0

====
